---------------------------- MODULE Spec2Model ----------------------------
(***************************************************************************)
(* A model of the regex-chess compiler (src/compiler.py) and of the text   *)
(* machine its instruction library (src/instruction_set.py) runs on.       *)
(*                                                                         *)
(*   SpecTrace : trace() re-executing a traced program against a CallTree, *)
(*               followed by linearize_tree() on the tree it returns.      *)
(*   SpecRun   : the rules of a compiled if/else applied, opcode by opcode, *)
(*               to a text of threads.                                     *)
(*   SpecISA   : the rules of one instruction applied to a text of threads.*)
(*   SpecFrame, SpecSeq, SpecValues : thread, pause/join and stack         *)
(*               instructions on texts of several threads.                 *)
(*   SpecArith, SpecSub, SpecConvert, SpecCompare, SpecBinary : the number *)
(*               instructions on unary and ten-bit values.                 *)
(*   SpecExpr  : linearize_expr on expressions with two operands.          *)
(*   SpecTwice : re_compile called again on the same traced program.       *)
(*   SpecRaw   : opcodes traced through VarTracer.__getattr__.             *)
(*   SpecState : CPUState.to_string and from_string (src/tests.py).        *)
(*   SpecLoop  : the loop of src/main.py on the written rule list.         *)
(*   SpecUniq  : variable_uniq on lists of short items.                    *)
(*   SpecMin   : keep_only_min_thread on threads with a unary stack top.   *)
(*   SpecNames, SpecCore : sequences of opcodes drawn from the library.    *)
(*   SpecMinus : binary_subtract on two ten-bit operands.                  *)
(*   SpecConserve : opcodes that leave the header lines in place.          *)
(*   SpecStackTo : assign_stack_to on stacks of short values.              *)
(***************************************************************************)
EXTENDS Naturals, Integers, Sequences, FiniteSets, TLC

VARIABLES
    progId,            \* which traced program `function` is
    tree,              \* CallTree.tree
    active_path,       \* CallTree.active_path, as the path of the aliased list in tree
    pointer,           \* CallTree.pointer
    pointer_hist,      \* CallTree.pointer_hist
    active_path_hist,  \* CallTree.active_path_hist
    todo,              \* what is left of the running execution of function(tracer)
    iter,              \* executions of function started by trace's for loop
    pc,                \* where the compilation stands
    last,              \* the last CallTree operation and what it returned
    linear,            \* the result of linearize_tree
    tags,              \* the labels next_tag returned, in the order of the calls
    state,             \* the text the rules rewrite (state in main.py)
    code,              \* the opcodes whose rules are applied to state
    ip,                \* how many opcodes of code have been applied
    threads,           \* the threads the initial text was written from
    compiled,          \* what the earlier calls of re_compile returned
    printed            \* what main.py has printed, one entry per print

machineVars == <<state, code, ip, threads, printed>>

traceVars == <<progId, tree, active_path, pointer, pointer_hist, active_path_hist,
               todo, iter, last, linear, tags, compiled>>

vars == <<progId, tree, active_path, pointer, pointer_hist, active_path_hist,
          todo, iter, pc, last, linear, tags, compiled, state, code, ip, threads, printed>>

-----------------------------------------------------------------------------
(* Bounds of the model and constants of the program *)

\* deepest nesting of ite() in the chain programs
MaxDepth == 11

\* for _ in range(10) in trace
K == 10

\* most threads in a text the rules are run on
MaxThreads == 2

-----------------------------------------------------------------------------
(* Decimal formatting, as f"UID{n}" formats the tag counter *)

Digit(d) == SubSeq("0123456789", d + 1, d + 1)

RECURSIVE Decimal(_)
Decimal(n) == IF n < 10 THEN Digit(n) ELSE Decimal(n \div 10) \o Digit(n % 10)

-----------------------------------------------------------------------------
(* Expressions: the value of a Tracer, or a raw str literal *)

Lit(s) == [op |-> "lit", s |-> s, args |-> <<>>]
Lookup(name) == [op |-> "lookup", s |-> name, args |-> <<>>]
Eq(a, b) == [op |-> "==", s |-> "", args |-> <<a, b>>]
\* Tracer.__eq__ .. __or__: (op, self, other)
Binary2(op, a, b) == [op |-> op, s |-> "", args |-> <<a, b>>]

(* Opcodes of the linear stream: (opname, arg) *)
Ins(op, arg) == [op |-> op, arg |-> arg, more |-> <<>>]

(* an opcode with more arguments: the further ones as <<name, value>> pairs *)
InsMore(op, arg, more) == [op |-> op, arg |-> arg, more |-> more]

-----------------------------------------------------------------------------
(* The call tree.  A child of a branch node is None or a list of nodes. *)

None == [some |-> FALSE, list |-> <<>>]
Some(l) == [some |-> TRUE, list |-> l]

AssignNode(key, value) ==
    [op |-> "assign", key |-> key, value |-> value, left |-> None, right |-> None]
\* (key, *args), the node VarTracer.__getattr__ appends
RawNode(key, arg) ==
    [op |-> key, key |-> arg, value |-> Lit(""), left |-> None, right |-> None]
BranchNode(value, left, right) ==
    [op |-> "branch", key |-> "", value |-> value, left |-> left, right |-> right]

Child(node, side) == IF side = 1 THEN node.left ELSE node.right

\* the list a path of <<index, side>> steps leads to (the alias active_path holds)
RECURSIVE GetList(_, _)
GetList(t, path) ==
    IF path = <<>> THEN t
    ELSE GetList(Child(t[path[1][1]], path[1][2]).list, Tail(path))

\* the tree with the list at path replaced by l
RECURSIVE SetList(_, _, _)
SetList(t, path, l) ==
    IF path = <<>> THEN l
    ELSE LET i == path[1][1]
             side == path[1][2]
             sub == SetList(Child(t[i], side).list, Tail(path), l)
         IN [t EXCEPT ![i] = IF side = 1 THEN [@ EXCEPT !.left = Some(sub)]
                                         ELSE [@ EXCEPT !.right = Some(sub)]]

\* (mutant) nested branches are not looked at
traverse_Shallow(path) == path.some

\* CallTree.traverse
RECURSIVE traverse(_)
traverse(path) ==
    IF ~path.some THEN FALSE
    ELSE \A i \in 1..Len(path.list) :
            LET node == path.list[i] IN
            node.op = "branch" =>
                /\ node.left.some /\ node.right.some
                /\ traverse(node.left)
                /\ traverse(node.right)

-----------------------------------------------------------------------------
(* Traced programs.  A statement is v[key] = value, or                     *)
(*     if value.ite(): then  else: else                                    *)
(*     v.merge()                                                           *)
(* and MergeStmt is the v.merge() that closes an if.                       *)

SAssign(key, value) ==
    [op |-> "assign", key |-> key, value |-> value, then |-> <<>>, else |-> <<>>]
SIf(value, then, else) ==
    [op |-> "if", key |-> "", value |-> value, then |-> then, else |-> else]
\* variables.key(arg), or variables.key() when arg is "", for a name that VarTracer
\* does not define itself
SRaw(key, arg) ==
    [op |-> "raw", key |-> key, value |-> Lit(arg), then |-> <<>>, else |-> <<>>]
MergeStmt ==
    [op |-> "merge", key |-> "", value |-> Lit(""), then |-> <<>>, else |-> <<>>]

\* if b: (if b: (... r = "x")) with n nested ifs, none with an else arm
RECURSIVE ThenChain(_)
ThenChain(n) ==
    IF n = 0 THEN <<SAssign("r", Lit("x"))>>
    ELSE <<SIf(Lookup("b"), ThenChain(n - 1), <<>>)>>

\* if b: r = "y" else: (if b: r = "y" else: (... r = "x")) with n nested ifs
RECURSIVE ElseChain(_)
ElseChain(n) ==
    IF n = 0 THEN <<SAssign("r", Lit("x"))>>
    ELSE <<SIf(Lookup("b"), <<SAssign("r", Lit("y"))>>, ElseChain(n - 1))>>

\* n if/else statements one after the other
RECURSIVE Siblings(_)
Siblings(n) ==
    IF n = 0 THEN <<>>
    ELSE <<SIf(Eq(Lookup("b"), Lit("T")),
               <<SAssign("r", Lit("yes"))>>,
               <<SAssign("r", Lit("no"))>>)>> \o Siblings(n - 1)

IfElse == <<SIf(Lookup("b"), <<SAssign("r", Lit("yes")), SAssign("t", Lit("1"))>>,
                             <<SAssign("r", Lit("no")), SAssign("f", Lit("1"))>>)>>
IfOnly == <<SIf(Lookup("b"), <<SAssign("r", Lit("yes"))>>, <<>>),
            SAssign("q", Lit("z"))>>
EmptyIf == <<SIf(Lookup("b"), <<>>, <<>>)>>
Nested2 == <<SIf(Lookup("a"),
                 <<SIf(Lookup("b"), <<SAssign("r", Lit("1"))>>, <<SAssign("r", Lit("2"))>>)>>,
                 <<SIf(Lookup("c"), <<SAssign("r", Lit("3"))>>, <<>>)>>),
             SAssign("q", Lit("z"))>>

\* ifs nested n deep in both arms
RECURSIVE FullTree(_)
FullTree(n) ==
    IF n = 0 THEN <<SAssign("r", Lit("x"))>>
    ELSE <<SIf(Lookup("b"), FullTree(n - 1), FullTree(n - 1))>>

ProgIds == 1..(6 + 2 * MaxDepth)
IsChain(id) == id > 6

\* INSTRUCTIONS: the names the decorator instruction registers
INSTRUCTIONS ==
    {"lookup", "indirect_lookup", "indirect_assign", "assign_pop", "is_stack_empty",
     "push", "pop", "peek", "dup", "swap", "eq", "isany", "neq", "lit_assign", "assign",
     "cond", "reactivate", "pause", "fork_bool", "fork_inactive", "fork_with_new_var",
     "fork_list_pop", "fix_double_list", "destroy_active_threads", "variable_uniq", "fen",
     "expand_chess", "assign_stack_to", "contract_spaces", "contract_chess", "binary_add",
     "binary_subtract", "to_unary", "from_unary", "add_unary", "sub_unary", "mod2_unary",
     "string_cat", "boolean_not", "boolean_and", "boolean_or", "greater_than", "less_than",
     "less_equal_than", "greater_equal_than", "intxy_to_location", "square_to_xy",
     "join_pop", "delete_var", "list_pop", "make_pretty", "unpretty", "piece_value",
     "check_king_alive", "promote_to_queen", "keep_only_first_thread",
     "keep_only_max_thread", "keep_only_last_thread", "keep_only_min_thread",
     "illegal_move", "test_checkmate", "do_piece_assign", "is_same_kind"}

\* the registered names whose function takes one argument, and those that take none
OneArgument ==
    <<"lookup", "assign_pop", "push", "isany", "reactivate", "pause", "fork_inactive",
     "join_pop", "delete_var", "make_pretty", "unpretty">>

NoArgument ==
    <<"indirect_lookup", "indirect_assign", "is_stack_empty", "pop", "peek", "dup", "swap",
     "eq", "neq", "fix_double_list", "destroy_active_threads", "fen", "expand_chess",
     "contract_spaces", "contract_chess", "binary_add", "binary_subtract", "to_unary",
     "from_unary", "add_unary", "sub_unary", "mod2_unary", "string_cat", "boolean_not",
     "boolean_and", "boolean_or", "greater_than", "less_than", "less_equal_than",
     "greater_equal_than", "square_to_xy", "piece_value", "check_king_alive",
     "promote_to_queen", "keep_only_first_thread", "keep_only_max_thread",
     "keep_only_last_thread", "keep_only_min_thread", "illegal_move", "test_checkmate",
     "is_same_kind">>

\* names that are not registered
Unregistered == <<"doprint", "bogus">>

\* the traced programs that make one call through VarTracer.__getattr__, by the
\* statement they consist of
RawCalls ==
    [i \in 1..Len(OneArgument) |-> SRaw(OneArgument[i], "x")]
      \o [i \in 1..Len(NoArgument \o Unregistered) |-> SRaw((NoArgument \o Unregistered)[i], "")]

RawProgIds == {0 - n : n \in 1..Len(RawCalls)}

Program(id) ==
    CASE id < 0 -> <<RawCalls[0 - id]>>
      [] id = 1 -> IfElse
      [] id = 2 -> IfOnly
      [] id = 3 -> EmptyIf
      [] id = 4 -> Nested2
      [] id = 5 -> Siblings(6)
      [] id = 6 -> FullTree(4)
      [] id > 6 /\ id <= 6 + MaxDepth -> ThenChain(id - 6)
      [] OTHER -> ElseChain(id - 6 - MaxDepth)

\* how deep the ifs of a statement list are nested
RECURSIVE Depth(_)
Depth(stmts) ==
    IF stmts = <<>> THEN 0
    ELSE LET s == Head(stmts)
             here == IF s.op = "if"
                     THEN 1 + (IF Depth(s.then) > Depth(s.else)
                               THEN Depth(s.then) ELSE Depth(s.else))
                     ELSE 0
             rest == Depth(Tail(stmts))
         IN IF here > rest THEN here ELSE rest

-----------------------------------------------------------------------------
(* trace(function) *)

NoOp == [op |-> "none", ret |-> FALSE, existed |-> FALSE, leftDone |-> FALSE,
         rightWasNone |-> FALSE, from |-> <<>>, at |-> 0]

InitTrace ==
    /\ progId \in ProgIds
    /\ tree = <<>>
    /\ active_path = <<>>
    /\ pointer = 0
    /\ pointer_hist = <<>>
    /\ active_path_hist = <<>>
    /\ todo = <<>>
    /\ iter = 0
    /\ pc = "loop"
    /\ last = NoOp
    /\ linear = <<>>
    /\ tags = <<>>
    /\ compiled = <<>>
    /\ printed = <<>>
    /\ state = ""
    /\ code = <<>>
    /\ ip = 0
    /\ threads = <<>>

\* for _ in range(10): tracer.history.pointer = 0; function(tracer)
LoopIter ==
    /\ pc = "loop"
    /\ iter < K
    /\ iter' = iter + 1
    /\ pointer' = 0
    /\ todo' = Program(progId)
    /\ pc' = "run"
    /\ last' = NoOp
    /\ UNCHANGED <<progId, tree, active_path, pointer_hist, active_path_hist, linear, tags, compiled,
                   state, code, ip, threads, printed>>

\* (mutant) append without the test of the pointer: the node is always added
CallTreeAppend_Always ==
    /\ pc = "run"
    /\ todo # <<>>
    /\ Head(todo).op = "assign"
    /\ LET node == AssignNode(Head(todo).key, Head(todo).value)
           ap == GetList(tree, active_path)
       IN /\ tree' = SetList(tree, active_path, Append(ap, node))
          /\ pc' = pc
    /\ pointer' = pointer + 1
    /\ todo' = Tail(todo)
    /\ last' = [NoOp EXCEPT !.op = "append"]
    /\ UNCHANGED <<progId, active_path, pointer_hist, active_path_hist, iter, linear, tags, compiled,
                   state, code, ip, threads, printed>>

\* CallTree.append(node), called by VarTracer.__setitem__
CallTreeAppend ==
    /\ pc = "run"
    /\ todo # <<>>
    /\ Head(todo).op = "assign"
    /\ LET node == AssignNode(Head(todo).key, Head(todo).value)
           ap == GetList(tree, active_path)
       IN IF pointer < Len(ap)
          THEN IF ap[pointer + 1].op = node.op /\ ap[pointer + 1] = node
               THEN /\ tree' = tree
                    /\ pc' = pc
               ELSE /\ tree' = tree          \* AssertionError
                    /\ pc' = "crashed"
          ELSE /\ tree' = SetList(tree, active_path, Append(ap, node))
               /\ pc' = pc
    /\ pointer' = pointer + 1
    /\ todo' = Tail(todo)
    /\ last' = [NoOp EXCEPT !.op = "append"]
    /\ UNCHANGED <<progId, active_path, pointer_hist, active_path_hist, iter, linear, tags, compiled,
                   state, code, ip, threads, printed>>

\* (mutant) both children None
NewBranch_BothNone(value) == BranchNode(value, None, None)

\* the node CallTree.branch appends when none exists at the cursor
NewBranch(value) == BranchNode(value, Some(<<>>), None)

\* (mutant) the list is not created
VisitChild_Keep(child) == child

\* if child is None: child = []
VisitChild(child) == IF child.some THEN child ELSE Some(<<>>)

\* (mutant) left is taken only while it is None
BranchSide_NoneOnly(node) == IF ~node.left.some THEN 1 ELSE 2

\* which child CallTree.branch descends into at an existing node: 1 left, 2 right
BranchSide(node) == IF ~traverse(node.left) THEN 1 ELSE 2

\* CallTree.branch(value), called by Tracer.ite; the traced program then runs the
\* arm the returned value selects, and v.merge() after it
CallTreeBranch ==
    /\ pc = "run"
    /\ todo # <<>>
    /\ Head(todo).op = "if"
    /\ LET stmt == Head(todo)
           ap == GetList(tree, active_path)
           existed == pointer < Len(ap)
           node == ap[pointer + 1]
           side == IF existed THEN BranchSide(node) ELSE 1
           ret_val == side = 1
           withChild ==
               IF side = 1
               THEN [node EXCEPT !.left = VisitChild(@)]
               ELSE [node EXCEPT !.right = VisitChild(@)]
       IN IF existed /\ node.op # "branch"
          THEN /\ pc' = "crashed"            \* AssertionError
               /\ UNCHANGED <<tree, active_path, pointer, todo>>
               /\ last' = [NoOp EXCEPT !.op = "branch"]
          ELSE /\ pc' = pc
               /\ tree' = IF existed
                          THEN SetList(tree, active_path, [ap EXCEPT ![pointer + 1] = withChild])
                          ELSE SetList(tree, active_path, Append(ap, NewBranch(stmt.value)))
               /\ active_path' = Append(active_path,
                                        <<IF existed THEN pointer + 1 ELSE Len(ap) + 1, side>>)
               /\ pointer' = 0
               /\ todo' = (IF ret_val THEN stmt.then ELSE stmt.else)
                              \o <<MergeStmt>> \o Tail(todo)
               /\ last' = [op |-> "branch", ret |-> ret_val, existed |-> existed,
                           leftDone |-> existed /\ traverse(node.left),
                           rightWasNone |-> existed /\ ~node.right.some,
                           from |-> active_path,
                           at |-> IF existed THEN pointer + 1 ELSE Len(ap) + 1]
    /\ active_path_hist' = Append(active_path_hist, active_path)
    /\ pointer_hist' = Append(pointer_hist, pointer)
    /\ UNCHANGED <<progId, iter, linear, tags, compiled,
                   state, code, ip, threads, printed>>

\* (mutant) merge without self.pointer += 1
CallTreeMerge_NoAdvance ==
    /\ pc = "run"
    /\ todo # <<>>
    /\ Head(todo).op = "merge"
    /\ IF pointer_hist = <<>>
       THEN /\ pc' = "crashed"
            /\ UNCHANGED <<pointer, pointer_hist, active_path, active_path_hist>>
       ELSE /\ pc' = pc
            /\ pointer' = pointer_hist[Len(pointer_hist)]
            /\ pointer_hist' = SubSeq(pointer_hist, 1, Len(pointer_hist) - 1)
            /\ active_path' = active_path_hist[Len(active_path_hist)]
            /\ active_path_hist' = SubSeq(active_path_hist, 1, Len(active_path_hist) - 1)
    /\ todo' = Tail(todo)
    /\ last' = [NoOp EXCEPT !.op = "merge"]
    /\ UNCHANGED <<progId, tree, iter, linear, tags, compiled,
                   state, code, ip, threads, printed>>

\* CallTree.merge()
CallTreeMerge ==
    /\ pc = "run"
    /\ todo # <<>>
    /\ Head(todo).op = "merge"
    /\ IF pointer_hist = <<>>
       THEN /\ pc' = "crashed"               \* ValueError: nothing to unpack
            /\ UNCHANGED <<pointer, pointer_hist, active_path, active_path_hist>>
       ELSE /\ pc' = pc
            /\ pointer' = pointer_hist[Len(pointer_hist)] + 1
            /\ pointer_hist' = SubSeq(pointer_hist, 1, Len(pointer_hist) - 1)
            /\ active_path' = active_path_hist[Len(active_path_hist)]
            /\ active_path_hist' = SubSeq(active_path_hist, 1, Len(active_path_hist) - 1)
    /\ todo' = Tail(todo)
    /\ last' = [NoOp EXCEPT !.op = "merge"]
    /\ UNCHANGED <<progId, tree, iter, linear, tags, compiled,
                   state, code, ip, threads, printed>>

\* function(tracer) returns
FunctionReturn ==
    /\ pc = "run"
    /\ todo = <<>>
    /\ pc' = "loop"
    /\ last' = NoOp
    /\ UNCHANGED <<progId, tree, active_path, pointer, pointer_hist, active_path_hist,
                   todo, iter, linear, tags, compiled,
                   state, code, ip, threads, printed>>

\* return (tracer.history.tree)
TraceReturn ==
    /\ pc = "loop"
    /\ iter = K
    /\ pc' = "done"
    /\ last' = NoOp
    /\ UNCHANGED <<progId, tree, active_path, pointer, pointer_hist, active_path_hist,
                   todo, iter, linear, tags, compiled,
                   state, code, ip, threads, printed>>

-----------------------------------------------------------------------------
(* linearize_expr and linearize_tree *)

remap(op) ==
    CASE op = "==" -> "eq"
      [] op = "!=" -> "neq"
      [] op = "strcat" -> "string_cat"
      [] op = "and" -> "boolean_and"
      [] op = "or" -> "boolean_or"

remap_cmp(op) ==
    CASE op = "<" -> "less_than"
      [] op = ">" -> "greater_than"
      [] op = "<=" -> "less_equal_than"
      [] op = ">=" -> "greater_equal_than"

\* (mutant) the operands of - in the order of the operands of +
RECURSIVE linearize_expr_LeftFirst(_)
linearize_expr_LeftFirst(value) ==
    CASE value.op = "lit" -> <<Ins("push", value.s)>>
      [] value.op = "lookup" -> <<Ins("lookup", value.s)>>
      [] value.op \in {"==", "!=", "strcat", "and", "or"} ->
            linearize_expr_LeftFirst(value.args[2]) \o linearize_expr_LeftFirst(value.args[1])
               \o <<Ins(remap(value.op), "")>>
      [] value.op \in {"<", ">", "<=", ">="} ->
            linearize_expr_LeftFirst(value.args[2]) \o <<Ins("to_unary", "")>>
               \o linearize_expr_LeftFirst(value.args[1]) \o <<Ins("to_unary", "")>>
               \o <<Ins(remap_cmp(value.op), "")>>
      [] value.op = "not" -> linearize_expr_LeftFirst(value.args[1]) \o <<Ins("boolean_not", "")>>
      [] value.op = "+" ->
            linearize_expr_LeftFirst(value.args[1]) \o linearize_expr_LeftFirst(value.args[2])
               \o <<Ins("binary_add", "")>>
      [] value.op = "-" ->
            linearize_expr_LeftFirst(value.args[1]) \o linearize_expr_LeftFirst(value.args[2])
               \o <<Ins("binary_subtract", "")>>
      [] OTHER -> <<Ins("ValueError", value.op)>>

\* the opcodes of an expression; + and - never reach the unary_ops case, which
\* stands after the cases op == '+' and op == '-'
RECURSIVE linearize_expr(_)
linearize_expr(value) ==
    CASE value.op = "lit" -> <<Ins("push", value.s)>>
      [] value.op = "lookup" -> <<Ins("lookup", value.s)>>
      [] value.op \in {"==", "!=", "strcat", "and", "or"} ->
            linearize_expr(value.args[2]) \o linearize_expr(value.args[1])
               \o <<Ins(remap(value.op), "")>>
      [] value.op \in {"<", ">", "<=", ">="} ->
            linearize_expr(value.args[2]) \o <<Ins("to_unary", "")>>
               \o linearize_expr(value.args[1]) \o <<Ins("to_unary", "")>>
               \o <<Ins(remap_cmp(value.op), "")>>
      [] value.op = "not" -> linearize_expr(value.args[1]) \o <<Ins("boolean_not", "")>>
      [] value.op = "+" ->
            linearize_expr(value.args[1]) \o linearize_expr(value.args[2])
               \o <<Ins("binary_add", "")>>
      [] value.op = "-" ->
            linearize_expr(value.args[2]) \o linearize_expr(value.args[1])
               \o <<Ins("binary_subtract", "")>>
      [] value.op = "%2" ->
            linearize_expr(value.args[1]) \o <<Ins("to_unary", ""), Ins("mod2_unary", "")>>
      [] value.op = "indirect_lookup" ->
            <<Ins("lookup", value.args[1].s), Ins("indirect_lookup", "")>>
      [] value.op = "isany" -> linearize_expr(value.args[1]) \o <<Ins("isany", value.s)>>
      [] value.op = "fen" -> linearize_expr(value.args[1]) \o <<Ins("fen", "")>>
      [] value.op = "nop" -> <<>>
      [] OTHER -> <<Ins("ValueError", value.op)>>

\* next_tag: the label made of the tag counter's value
next_tag(counter) == "UID" \o Decimal(counter)

\* (mutant) the two labels of the else part exchanged
BranchCode_Swapped(tag1, tag2, condCode, leftCode, else_case) ==
    condCode \o <<Ins("cond", tag1)>> \o leftCode
      \o (IF Len(else_case) > 0
          THEN <<Ins("pause", tag1), Ins("reactivate", tag2)>> \o else_case
                 \o <<Ins("reactivate", tag2)>>
          ELSE <<Ins("reactivate", tag1)>>)

\* the opcodes linearize_subtree emits for one branch node, given the lowering of
\* its condition and of its two subtrees
BranchCode(tag1, tag2, condCode, leftCode, else_case) ==
    condCode \o <<Ins("cond", tag1)>> \o leftCode
      \o (IF Len(else_case) > 0
          THEN <<Ins("pause", tag2), Ins("reactivate", tag1)>> \o else_case
                 \o <<Ins("reactivate", tag2)>>
          ELSE <<Ins("reactivate", tag1)>>)

\* the opcodes linearize_subtree emits as they are, with their arguments
Verbatim ==
    {"assign_pop", "intxy_to_location", "push", "indirect_assign", "destroy_active_threads",
     "pause", "join_pop", "contract_chess", "expand_chess", "list_pop", "fork_inactive",
     "variable_uniq", "make_pretty", "unpretty", "is_stack_empty", "pop", "peek",
     "fork_list_pop", "delete_var", "check_king_alive", "keep_only_first_thread",
     "keep_only_max_thread", "keep_only_last_thread", "keep_only_min_thread",
     "illegal_move", "test_checkmate", "square_to_xy", "do_piece_assign",
     "assign_stack_to", "piece_value", "fix_double_list", "binary_subtract", "swap",
     "is_same_kind", "boolean_and", "binary_add", "sub_unary", "promote_to_queen"}

\* linearize_subtree from node i of a list on, with the tag counter threaded through:
\* [ok, ins, ctr, tags]; ok is FALSE when iterating over None raises TypeError, and
\* tags are the labels next_tag returned, in the order of the calls
RECURSIVE LinearizeFrom(_, _, _)
linearize_subtree(subtree, ctr) ==
    IF ~subtree.some THEN [ok |-> FALSE, ins |-> <<>>, ctr |-> ctr, tags |-> <<>>]
    ELSE LinearizeFrom(subtree.list, 1, ctr)

LinearizeFrom(list, i, ctr) ==
    IF i > Len(list) THEN [ok |-> TRUE, ins |-> <<>>, ctr |-> ctr, tags |-> <<>>]
    ELSE LET node == list[i] IN
         IF node.op = "assign"
         THEN LET rest == LinearizeFrom(list, i + 1, ctr) IN
              [rest EXCEPT !.ins = linearize_expr(node.value)
                                     \o <<Ins("assign_pop", node.key)>> \o @]
         ELSE IF node.op \in {"lookup", "reactivate", "fork_bool"} \cup Verbatim
         THEN LET rest == LinearizeFrom(list, i + 1, ctr) IN
              [rest EXCEPT !.ins = <<Ins(node.op, node.key)>> \o @]
         ELSE IF node.op # "branch"          \* ValueError: Unknown node type
         THEN [ok |-> FALSE, ins |-> <<>>, ctr |-> ctr, tags |-> <<>>]
         ELSE LET tag1 == next_tag(ctr)
                  tag2 == next_tag(ctr + 1)
                  l == linearize_subtree(node.left, ctr + 2)
                  r == linearize_subtree(node.right, l.ctr)
                  rest == LinearizeFrom(list, i + 1, r.ctr)
              IN IF ~l.ok THEN l
                 ELSE IF ~r.ok THEN r
                 ELSE [rest EXCEPT !.ins = BranchCode(tag1, tag2, linearize_expr(node.value),
                                                      l.ins, r.ins) \o @,
                                   !.tags = <<tag1, tag2>> \o l.tags \o r.tags \o @]

linearize_tree(call_tree) == linearize_subtree(Some(call_tree), 0)

\* linear = linearize_tree(tree) in re_compile
Linearize ==
    /\ pc = "done"
    /\ LET res == linearize_tree(tree) IN
       IF res.ok
       THEN /\ pc' = "linearized"
            /\ linear' = res.ins
            /\ tags' = res.tags
       ELSE /\ pc' = "aborted"               \* TypeError: 'NoneType' is not iterable,
                                             \* or ValueError: Unknown node type
            /\ linear' = <<>>
            /\ tags' = <<>>
    /\ last' = NoOp
    /\ UNCHANGED <<progId, tree, active_path, pointer, pointer_hist, active_path_hist,
                   todo, iter, compiled>>
    /\ UNCHANGED machineVars

\* how many further calls of re_compile follow the first
MaxRecompiles == 1

\* what a finished call of re_compile gave: the opcode stream and its labels, or
\* the TypeError of linearize_tree
Returned == [ok |-> pc = "linearized", linear |-> linear, tags |-> tags]

\* (mutant) the new CallTree starts from the tree of the call before
Recompile_SharedTree ==
    /\ pc \in {"linearized", "aborted"}
    /\ Len(compiled) < MaxRecompiles
    /\ compiled' = Append(compiled, Returned)
    /\ active_path' = <<>>
    /\ pointer' = 0
    /\ pointer_hist' = <<>>
    /\ active_path_hist' = <<>>
    /\ todo' = <<>>
    /\ iter' = 0
    /\ pc' = "loop"
    /\ last' = NoOp
    /\ linear' = <<>>
    /\ tags' = <<>>
    /\ UNCHANGED <<progId, tree>>
    /\ UNCHANGED machineVars

\* re_compile(fn) called again with the same fn: trace makes a new VarTracer, whose
\* history is CallTree(tree=[]), and linearize_tree a new tag_counter
Recompile ==
    /\ pc \in {"linearized", "aborted"}
    /\ Len(compiled) < MaxRecompiles
    /\ compiled' = Append(compiled, Returned)
    /\ tree' = <<>>
    /\ active_path' = <<>>
    /\ pointer' = 0
    /\ pointer_hist' = <<>>
    /\ active_path_hist' = <<>>
    /\ todo' = <<>>
    /\ iter' = 0
    /\ pc' = "loop"
    /\ last' = NoOp
    /\ linear' = <<>>
    /\ tags' = <<>>
    /\ UNCHANGED progId
    /\ UNCHANGED machineVars

NextTrace ==
    \/ LoopIter
    \/ CallTreeAppend
    \/ CallTreeBranch
    \/ CallTreeMerge
    \/ FunctionReturn
    \/ TraceReturn
    \/ Linearize

SpecTrace == InitTrace /\ [][NextTrace]_vars

\* variables.key(*args) for a key VarTracer does not define: __getattr__ returns
\* fn when key is registered, and fn appends the node (key, *args)
GetAttr ==
    /\ pc = "run"
    /\ todo # <<>>
    /\ Head(todo).op = "raw"
    /\ LET node == RawNode(Head(todo).key, Head(todo).value.s)
           ap == GetList(tree, active_path)
       IN IF Head(todo).key \notin INSTRUCTIONS
          THEN /\ tree' = tree              \* raise: RuntimeError
               /\ pc' = "crashed"
               /\ pointer' = pointer
          ELSE /\ IF pointer < Len(ap)
                  THEN IF ap[pointer + 1] = node
                       THEN /\ tree' = tree
                            /\ pc' = pc
                       ELSE /\ tree' = tree          \* AssertionError
                            /\ pc' = "crashed"
                  ELSE /\ tree' = SetList(tree, active_path, Append(ap, node))
                       /\ pc' = pc
               /\ pointer' = pointer + 1
    /\ todo' = Tail(todo)
    /\ last' = [NoOp EXCEPT !.op = "append"]
    /\ UNCHANGED <<progId, active_path, pointer_hist, active_path_hist, iter, linear, tags,
                   compiled>>
    /\ UNCHANGED machineVars

\* re_compile of a program that makes one call through __getattr__
InitRaw ==
    /\ progId \in RawProgIds
    /\ tree = <<>>
    /\ active_path = <<>>
    /\ pointer = 0
    /\ pointer_hist = <<>>
    /\ active_path_hist = <<>>
    /\ todo = <<>>
    /\ iter = 0
    /\ pc = "loop"
    /\ last = NoOp
    /\ linear = <<>>
    /\ tags = <<>>
    /\ compiled = <<>>
    /\ printed = <<>>
    /\ state = ""
    /\ code = <<>>
    /\ ip = 0
    /\ threads = <<>>

NextRaw ==
    \/ LoopIter
    \/ GetAttr
    \/ FunctionReturn
    \/ TraceReturn
    \/ Linearize

SpecRaw == InitRaw /\ [][NextRaw]_vars

NextTwice ==
    \/ NextTrace
    \/ Recompile

SpecTwice == InitTrace /\ [][NextTwice]_vars

-----------------------------------------------------------------------------
(* Properties of the tracer *)

\* every branch node below has two lists as children
RECURSIVE NoNoneChild(_)
NoNoneChild(list) ==
    \A i \in 1..Len(list) :
        list[i].op = "branch" =>
            /\ list[i].left.some /\ list[i].right.some
            /\ NoNoneChild(list[i].left.list)
            /\ NoNoneChild(list[i].right.list)

\* some branch node below has None as its right child
RECURSIVE HasNoneRight(_)
HasNoneRight(list) ==
    \E i \in 1..Len(list) :
        /\ list[i].op = "branch"
        /\ \/ ~list[i].right.some
           \/ HasNoneRight(list[i].left.list)
           \/ HasNoneRight(list[i].right.list)

\* some branch node below has an empty list as a child
RECURSIVE HasEmptyChild(_)
HasEmptyChild(list) ==
    \E i \in 1..Len(list) :
        /\ list[i].op = "branch"
        /\ \/ (list[i].left.some /\ list[i].left.list = <<>>)
           \/ (list[i].right.some /\ list[i].right.list = <<>>)
           \/ HasEmptyChild(list[i].left.list)
           \/ HasEmptyChild(list[i].right.list)

\* every branch node below has two non-empty lists as children
RECURSIVE AllChildrenNonEmpty(_)
AllChildrenNonEmpty(list) ==
    \A i \in 1..Len(list) :
        list[i].op = "branch" =>
            /\ list[i].left.some /\ list[i].left.list # <<>>
            /\ list[i].right.some /\ list[i].right.list # <<>>
            /\ AllChildrenNonEmpty(list[i].left.list)
            /\ AllChildrenNonEmpty(list[i].right.list)

\* the executions a statement list needs before every arm below it has been run:
\* an if needs those of its true arm and then those of its false arm, and the
\* statements of one list are explored side by side
RECURSIVE Needed(_)
Needed(stmts) ==
    IF stmts = <<>> THEN 1
    ELSE LET s == Head(stmts)
             here == IF s.op = "if" THEN Needed(s.then) + Needed(s.else) ELSE 1
             rest == Needed(Tail(stmts))
         IN IF here > rest THEN here ELSE rest

\* a list of the tree holds one node per statement of the arm it records; the left
\* child of a branch is a list, the right child is None or a list
RECURSIVE ArmsRecorded(_, _)
ArmsRecorded(list, stmts) ==
    /\ Len(list) = Len(stmts)
    /\ \A i \in 1..Len(list) :
          IF stmts[i].op = "if"
          THEN /\ list[i].op = "branch"
               /\ list[i].left.some
               /\ ArmsRecorded(list[i].left.list, stmts[i].then)
               /\ list[i].right.some => ArmsRecorded(list[i].right.list, stmts[i].else)
          ELSE list[i].op = "assign"

\* the branch node the last call of CallTree.branch was about
LastNode == GetList(tree, last.from)[last.at]

(* C4 as stated: at a cursor with no node, branch appends a node with both children
   None, makes the left child the active path and returns True *)
C4_AsStated ==
    (last.op = "branch" /\ ~last.existed) =>
        /\ ~LastNode.left.some /\ ~LastNode.right.some
        /\ active_path = Append(last.from, <<last.at, 1>>)
        /\ last.ret

(* C4 amended: at a cursor with no node, branch appends, at the end of the active
   list, a branch node whose left child is the empty list and whose right child is
   None, makes the left child the active path with the pointer at 0, and returns
   True *)
C4_NewBranch ==
    (last.op = "branch" /\ ~last.existed) =>
        /\ last.at = Len(GetList(tree, last.from))
        /\ LastNode.op = "branch"
        /\ LastNode.left = Some(<<>>)
        /\ LastNode.right = None
        /\ active_path = Append(last.from, <<last.at, 1>>)
        /\ pointer = 0
        /\ last.ret

C4_Witness == last.op = "branch" /\ ~last.existed /\ pc = "run"

(* C5 as stated: at an existing node, branch descends left and returns True when the
   left subtree is not fully explored, else descends right and returns False when
   the right subtree is unexplored, else returns False without descending *)
C5_AsStated ==
    (last.op = "branch" /\ last.existed /\ pc = "run") =>
        IF ~last.leftDone
        THEN last.ret /\ active_path = Append(last.from, <<last.at, 1>>)
        ELSE IF last.rightWasNone
        THEN ~last.ret /\ active_path = Append(last.from, <<last.at, 2>>)
        ELSE ~last.ret /\ active_path = last.from

(* C5 amended: at an existing node, branch descends left and returns True when the
   left subtree is not fully explored; otherwise it returns False and descends
   right, whether the right subtree is unexplored (it then becomes the empty list)
   or explored already *)
C5_ExistingBranch ==
    (last.op = "branch" /\ last.existed /\ pc = "run") =>
        /\ pointer = 0
        /\ IF ~last.leftDone
           THEN last.ret /\ active_path = Append(last.from, <<last.at, 1>>)
           ELSE /\ ~last.ret
                /\ active_path = Append(last.from, <<last.at, 2>>)
                /\ LastNode.right.some
                /\ last.rightWasNone => LastNode.right.list = <<>>

C5_Witness ==
    /\ last.op = "branch" /\ last.existed /\ pc = "run"
    /\ last.leftDone /\ ~last.rightWasNone
    /\ LastNode.right.list # <<>>

(* C6: after trace returns, no branch node of the returned tree has a None child *)
C6_NoNoneAfterTrace ==
    pc \in {"done", "linearized", "aborted"} => NoNoneChild(tree)

(* C7 as stated: after tracing terminates, every branch node has both children as
   non-empty lists *)
C7_AsStated == pc = "done" => AllChildrenNonEmpty(tree)

(* C7 amended: after tracing terminates, the left child of every branch node is a
   list and its right child is a list or None; a child list holds one node per
   statement its arm records, so it is empty for an arm that records nothing (the
   false arm of an if without else); no child is None exactly when the program
   needs at most the 10 executions trace makes *)
C7_ChildrenAfterTrace ==
    pc = "done" =>
        /\ ArmsRecorded(tree, Program(progId))
        /\ NoNoneChild(tree) <=> Needed(Program(progId)) <= K

C7_Witness == pc = "done" /\ NoNoneChild(tree) /\ HasEmptyChild(tree)

\* what CallTree.is_complete is documented to check
is_complete == traverse(Some(tree)) /\ Len(tree) > 0

(* C8: when the tree is incomplete after the 10 executions, trace fails and hands no
   tree to the linearizer *)
C8_FailsHard == (pc = "loop" /\ iter = K /\ ~is_complete) => ~ENABLED TraceReturn

(* C9: a program nested n deep is not complete before its execution n+1, and the
   chains are complete from it on; with nesting deeper than 9 the tree trace
   returns has a branch with a None right child, trace raises nothing, and
   linearize_tree raises instead of returning opcodes *)
C9_DeepNesting ==
    LET n == Depth(Program(progId)) IN
    /\ pc # "crashed"
    /\ (pc = "loop" /\ iter >= 1 /\ traverse(Some(tree))) => iter >= n + 1
    /\ (pc = "loop" /\ iter >= n + 1 /\ IsChain(progId)) => traverse(Some(tree))
    /\ (n > K - 1 /\ pc \in {"done", "linearized", "aborted"}) => HasNoneRight(tree)
    /\ (n > K - 1) => pc # "linearized"
    /\ (n <= K - 1 /\ IsChain(progId)) => pc # "aborted"

C9_Witness == pc = "aborted" /\ Depth(Program(progId)) > K - 1 /\ HasNoneRight(tree)

-----------------------------------------------------------------------------
(* The rewrite rules' regular expressions, as re.sub applies them (no flags). *)
(* A pattern is a sequence of items, matched left to right with backtracking; *)
(* a repetition is greedy.                                                    *)

L(s) == [t |-> "lit", s |-> s]                        \* the characters of s
Rep(neg, set, min, max) ==                            \* [set]{min,max} or [^set]{min,max}
    [t |-> "rep", neg |-> neg, set |-> set, min |-> min, max |-> max]
Unbounded == 0 - 1
One(set) == Rep(FALSE, set, 1, 1)                     \* [set]
Not(set) == Rep(TRUE, set, 1, 1)                      \* [^set]
Star(set) == Rep(FALSE, set, 0, Unbounded)            \* [set]*
NotStar(set) == Rep(TRUE, set, 0, Unbounded)          \* [^set]*
Plus(set) == Rep(FALSE, set, 1, Unbounded)            \* [set]+
NotPlus(set) == Rep(TRUE, set, 1, Unbounded)          \* [^set]+
Opt(s) == [t |-> "alt", opts |-> <<s, "">>]           \* s?
Alt(opts) == [t |-> "alt", opts |-> opts]             \* a|b|... of literals here
Open(g) == [t |-> "open", g |-> g]                    \* ( of group g
Close(g) == [t |-> "close", g |-> g]                  \* ) of group g
Grp(g, items) == <<Open(g)>> \o items \o <<Close(g)>> \* (items) as group g
Ref(g) == [t |-> "ref", g |-> g]                      \* \g
RefPlus(g) == [t |-> "refs", g |-> g]                 \* \g+
Eos == [t |-> "eos"]                                  \* $
Bos == [t |-> "bos"]                                  \* ^

\* a rewrite rule (pattern, replacement); a replacement is a sequence of L and Ref
Rule(pat, repl) == [pat |-> pat, repl |-> repl]

CharAt(text, pos) == SubSeq(text, pos, pos)
Slice(text, from, to) == IF to < from THEN "" ELSE SubSeq(text, from, to)

NoCaps == [g \in 1..9 |-> [s |-> 0, v |-> ""]]
Fail == [ok |-> FALSE, end |-> 0, caps |-> NoCaps]

\* how many characters from pos on a repetition can take at most: the run ends
\* at the end of the text, at the repetition's maximum, or at a character
\* outside its class
MaxRun(text, pos, it) ==
    LET rest == Len(text) - pos + 1
        lim == IF it.max = Unbounded \/ it.max > rest THEN rest ELSE it.max
        stops == {k \in 0..lim :
                    k = lim \/ (CharAt(text, pos + k) \in it.set) = it.neg}
    IN CHOOSE k \in stops : \A j \in stops : k <= j

StartsWith(text, pos, s) ==
    /\ pos + Len(s) - 1 <= Len(text)
    /\ Slice(text, pos, pos + Len(s) - 1) = s

\* the match of items i.. of pat at pos, the first in the order of backtracking
RECURSIVE Match(_, _, _, _, _)
RECURSIVE TryRep(_, _, _, _, _)
RECURSIVE TryAlt(_, _, _, _, _, _)
RECURSIVE TryRefs(_, _, _, _, _)
Match(text, pat, i, pos, caps) ==
    IF i > Len(pat) THEN [ok |-> TRUE, end |-> pos, caps |-> caps]
    ELSE LET it == pat[i] IN
         CASE it.t = "lit" ->
                IF StartsWith(text, pos, it.s)
                THEN Match(text, pat, i + 1, pos + Len(it.s), caps) ELSE Fail
           [] it.t = "rep" -> TryRep(text, pat, i, pos, caps)
           [] it.t = "alt" -> TryAlt(text, pat, i, pos, caps, 1)
           [] it.t = "open" ->
                Match(text, pat, i + 1, pos, [caps EXCEPT ![it.g].s = pos])
           [] it.t = "close" ->
                Match(text, pat, i + 1, pos,
                      [caps EXCEPT ![it.g].v = Slice(text, caps[it.g].s, pos - 1)])
           [] it.t = "ref" ->
                IF StartsWith(text, pos, caps[it.g].v)
                THEN Match(text, pat, i + 1, pos + Len(caps[it.g].v), caps) ELSE Fail
           [] it.t = "refs" -> TryRefs(text, pat, i, pos, caps)
           [] it.t = "eos" ->
                IF pos = Len(text) + 1 \/ (pos = Len(text) /\ CharAt(text, pos) = "\n")
                THEN Match(text, pat, i + 1, pos, caps) ELSE Fail
           [] it.t = "bos" ->
                IF pos = 1 THEN Match(text, pat, i + 1, pos, caps) ELSE Fail

\* a greedy repetition: the longest run after which the rest of the pattern
\* matches
TryRep(text, pat, i, pos, caps) ==
    LET good == {k \in pat[i].min..MaxRun(text, pos, pat[i]) :
                    Match(text, pat, i + 1, pos + k, caps).ok}
    IN IF good = {} THEN Fail
       ELSE Match(text, pat, i + 1,
                  pos + (CHOOSE k \in good : \A j \in good : j <= k), caps)

\* how many copies of s stand one after the other from pos on
Copies(text, pos, s) ==
    LET most == IF Len(s) = 0 THEN 0 ELSE (Len(text) - pos + 1) \div Len(s)
        stops == {n \in 0..most : n = most \/ ~StartsWith(text, pos + n * Len(s), s)}
    IN CHOOSE n \in stops : \A j \in stops : n <= j

\* a greedy repetition of a group's text, one copy or more
TryRefs(text, pat, i, pos, caps) ==
    LET s == caps[pat[i].g].v
        good == {n \in 1..Copies(text, pos, s) :
                    Match(text, pat, i + 1, pos + n * Len(s), caps).ok}
    IN IF good = {} THEN Fail
       ELSE Match(text, pat, i + 1,
                  pos + (CHOOSE n \in good : \A j \in good : j <= n) * Len(s), caps)

\* an alternation: the alternatives in their order
TryAlt(text, pat, i, pos, caps, a) ==
    IF a > Len(pat[i].opts) THEN Fail
    ELSE LET r == IF StartsWith(text, pos, pat[i].opts[a])
                  THEN Match(text, pat, i + 1, pos + Len(pat[i].opts[a]), caps)
                  ELSE Fail
         IN IF r.ok THEN r ELSE TryAlt(text, pat, i, pos, caps, a + 1)

\* the replacement template with its group references filled in
RECURSIVE Expand(_, _)
Expand(repl, caps) ==
    IF repl = <<>> THEN ""
    ELSE (IF Head(repl).t = "ref" THEN caps[Head(repl).g].v ELSE Head(repl).s)
            \o Expand(Tail(repl), caps)

\* re.sub(pattern, repl, text): every non-overlapping match from the left is
\* replaced, the text between the matches is kept
RECURSIVE SubFrom(_, _, _)
SubFrom(text, rule, pos) ==
    LET starts == {p \in pos..(Len(text) + 1) : Match(text, rule.pat, 1, p, NoCaps).ok}
    IN IF starts = {} THEN Slice(text, pos, Len(text))
       ELSE LET p == CHOOSE q \in starts : \A j \in starts : q <= j
                r == Match(text, rule.pat, 1, p, NoCaps)
            IN Slice(text, pos, p - 1) \o Expand(rule.repl, r.caps) \o
                 (IF r.end > p THEN SubFrom(text, rule, r.end)
                  ELSE IF p > Len(text) THEN ""
                  ELSE CharAt(text, p) \o SubFrom(text, rule, p + 1))

sub(rule, text) == SubFrom(text, rule, 1)

\* for pattern, replacement in instruction: state = re.sub(pattern, replacement, state)
RECURSIVE ApplyRules(_, _)
ApplyRules(rules, text) ==
    IF rules = <<>> THEN text
    ELSE IF Len(rules) = 1 THEN sub(rules[1], text)
    ELSE LET half == Len(rules) \div 2
             next == ApplyRules(SubSeq(rules, 1, half), text)
         IN IF next = text                                       \* no match so far
            THEN ApplyRules(SubSeq(rules, half + 1, Len(rules)), text)
            ELSE ApplyRules(SubSeq(rules, half + 1, Len(rules)), next)

-----------------------------------------------------------------------------
(* The instruction library: each opcode's list of rewrite rules *)

Hdr == "%%\n#stack:\n"

\* the sentinel character of the rules, a backtick in the source; a string of this
\* module cannot hold a backtick, so the model writes it as a character that
\* occurs nowhere else in the rules or in the states
BT == "@"

lookup(variable) ==
    <<Rule(Grp(1, <<L("%%\n#stack:")>>)
             \o Grp(2, <<NotStar({"%"}), L("\n#" \o variable \o ": ")>>)
             \o Grp(3, <<NotStar({"#", "%"})>>) \o <<L("\n")>>,
           <<Ref(1), L("\n"), Ref(3), Ref(2), Ref(3), L("\n")>>)>>

indirect_assign ==
    <<Rule(Grp(1, <<L("%%")>>) \o <<NotStar({"%"}), L("#stack:\n")>>
             \o Grp(2, <<NotStar({"\n"})>>) \o <<L("\n")>>
             \o Grp(3, <<NotStar({"\n"})>>) \o <<L("\n")>>
             \o Grp(4, <<NotStar({"%"}), L("#"), Ref(3), L(": ")>>)
             \o <<NotStar({"\n"})>>,
           <<Ref(1), L(BT \o "\n#stack:\n"), Ref(4), Ref(2)>>),
      Rule(Grp(1, <<L("%%")>>)
             \o Grp(2, <<Not({BT}), NotStar({"%"}), L("#stack:\n")>>)
             \o Grp(3, <<NotStar({"\n"})>>) \o <<L("\n")>>
             \o Grp(4, <<NotStar({"\n"})>>) \o <<L("\n")>>
             \o Grp(5, <<NotStar({"%"}), Eos>>),
           <<Ref(1), L(BT), Ref(2), Ref(5), L("#"), Ref(4), L(": "), Ref(3), L("\n")>>),
      Rule(<<L("%%" \o BT)>>, <<L("%%")>>)>>

\* (mutant) the sentinel is not removed
assign_pop_Marked(varname) ==
    <<Rule(Grp(1, <<L("%%")>>) \o <<L("\n#stack:\n")>>
             \o Grp(2, <<NotStar({"\n"})>>) \o <<L("\n")>>
             \o Grp(3, <<NotStar({"%"}), L("#" \o varname \o ": ")>>)
             \o <<NotStar({"\n"})>>,
           <<Ref(1), L(BT \o "\n#stack:\n"), Ref(3), Ref(2)>>),
      Rule(Grp(1, <<L("%%")>>)
             \o Grp(2, <<Not({BT}), Opt("\n"), L("#stack:\n")>>)
             \o Grp(3, <<NotStar({"\n", "%"})>>) \o <<L("\n")>>
             \o Grp(4, <<NotStar({"%"})>>),
           <<Ref(1), L(BT), Ref(2), Ref(4), L("#" \o varname \o ": "), Ref(3), L("\n")>>)>>

assign_pop(varname) ==
    <<Rule(Grp(1, <<L("%%")>>) \o <<L("\n#stack:\n")>>
             \o Grp(2, <<NotStar({"\n"})>>) \o <<L("\n")>>
             \o Grp(3, <<NotStar({"%"}), L("#" \o varname \o ": ")>>)
             \o <<NotStar({"\n"})>>,
           <<Ref(1), L(BT \o "\n#stack:\n"), Ref(3), Ref(2)>>),
      Rule(Grp(1, <<L("%%")>>)
             \o Grp(2, <<Not({BT}), Opt("\n"), L("#stack:\n")>>)
             \o Grp(3, <<NotStar({"\n", "%"})>>) \o <<L("\n")>>
             \o Grp(4, <<NotStar({"%"})>>),
           <<Ref(1), L(BT), Ref(2), Ref(4), L("#" \o varname \o ": "), Ref(3), L("\n")>>),
      Rule(<<L("%%" \o BT)>>, <<L("%%")>>)>>

is_stack_empty ==
    <<Rule(Grp(1, <<L(Hdr)>>) \o Grp(2, <<Not({"#", "%"})>>),
           <<Ref(1), L(BT \o "False\n"), Ref(2)>>),
      Rule(Grp(1, <<L(Hdr)>>) \o Grp(2, <<Not({BT})>>),
           <<Ref(1), L("True\n"), Ref(2)>>),
      Rule(Grp(1, <<L(Hdr)>>) \o <<Eos>>,
           <<Ref(1), L("True\n")>>),
      Rule(<<L(BT)>>, <<>>)>>

push(const) ==
    <<Rule(Grp(1, <<L(Hdr)>>), <<Ref(1), L(const \o "\n")>>)>>

pop ==
    <<Rule(Grp(1, <<L(Hdr)>>) \o Grp(2, <<NotStar({"\n"})>>) \o <<L("\n")>>,
           <<Ref(1)>>)>>

dup ==
    <<Rule(Grp(1, <<L(Hdr)>>) \o Grp(2, <<NotStar({"\n"})>>) \o <<L("\n")>>,
           <<Ref(1), Ref(2), L("\n"), Ref(2), L("\n")>>)>>

swap ==
    <<Rule(Grp(1, <<L(Hdr)>>) \o Grp(2, <<NotStar({"\n"})>>) \o <<L("\n")>>
             \o Grp(3, <<NotStar({"\n"})>>) \o <<L("\n")>>,
           <<Ref(1), Ref(3), L("\n"), Ref(2), L("\n")>>)>>

eq ==
    <<Rule(Grp(1, <<L(Hdr)>>) \o Grp(2, <<NotStar({"\n"})>>) \o <<L("\n"), Ref(2), L("\n")>>,
           <<Ref(1), L(BT \o "True\n")>>),
      Rule(Grp(1, <<L(Hdr)>>) \o Grp(2, <<Not({BT}), NotStar({"\n"})>>) \o <<L("\n")>>
             \o Grp(3, <<NotStar({"\n"})>>) \o <<L("\n")>>,
           <<Ref(1), L("False\n")>>),
      Rule(<<L(BT)>>, <<>>)>>

\* (mutant) a thread with False on top keeps its header
cond_KeepActive(tag) ==
    <<Rule(<<L("%")>> \o Grp(1, <<L("%\n#stack:\nTrue")>>),
           <<L("%"), Ref(1), L(BT)>>),
      Rule(<<L("%")>> \o Grp(1, <<L("\n#stack:\nFalse")>>),
           <<L("%"), Ref(1), L(BT)>>),
      Rule(<<L("\n")>> \o Grp(1, <<Alt(<<"True", "False">>)>>) \o <<L(BT \o "\n")>>,
           <<L("\n")>>)>>

\* (mutant) the truth value stays on the stack
cond_KeepValue(tag) ==
    <<Rule(<<L("%")>> \o Grp(1, <<L("%\n#stack:\nTrue")>>),
           <<L("%"), Ref(1), L(BT)>>),
      Rule(<<L("%")>> \o Grp(1, <<L("\n#stack:\nFalse")>>),
           <<L(tag), Ref(1), L(BT)>>),
      Rule(<<L("\n")>> \o Grp(1, <<Alt(<<"True", "False">>)>>) \o <<L(BT \o "\n")>>,
           <<L("\n"), Ref(1), L("\n")>>)>>

cond(tag) ==
    <<Rule(<<L("%")>> \o Grp(1, <<L("%\n#stack:\nTrue")>>),
           <<L("%"), Ref(1), L(BT)>>),
      Rule(<<L("%")>> \o Grp(1, <<L("\n#stack:\nFalse")>>),
           <<L(tag), Ref(1), L(BT)>>),
      Rule(<<L("\n")>> \o Grp(1, <<Alt(<<"True", "False">>)>>) \o <<L(BT \o "\n")>>,
           <<L("\n")>>)>>

\* (mutant) the label is not closed by the end of the header line
reactivate_Prefix(tag) ==
    <<Rule(<<L("%" \o tag)>> \o Grp(1, <<NotStar({"%"})>>),
           <<L("%%\n"), Ref(1)>>)>>

reactivate(tag) ==
    <<Rule(<<L("%" \o tag \o "\n")>> \o Grp(1, <<NotStar({"%"})>>),
           <<L("%%\n"), Ref(1)>>)>>

\* (mutant) the parked threads lose their stack header
pause_Drop(tag) ==
    <<Rule(<<L("%%\n#stack:\n")>> \o Grp(1, <<NotStar({"%"})>>),
           <<L("%" \o tag \o "\n"), Ref(1)>>)>>

\* (mutant) the active threads are not parked
pause_Nothing(tag) == <<>>

pause(tag) ==
    <<Rule(<<L("%%\n")>> \o Grp(1, <<NotStar({"%"})>>),
           <<L("%" \o tag \o "\n"), Ref(1)>>)>>

RECURSIVE JoinItems(_)
JoinItems(items) ==
    IF items = <<>> THEN ""
    ELSE "#" \o Head(items)[1] \o ": " \o Head(items)[2]
            \o (IF Len(items) > 1 THEN "\n" \o JoinItems(Tail(items)) ELSE "")

\* (mutant) the copy stays active and the thread itself is parked
fork_inactive_Swapped(tag) ==
    <<Rule(<<L("%%\n")>> \o Grp(1, <<NotStar({"%"})>>),
           <<L("%" \o tag \o "\n"), Ref(1), L("%%\n"), Ref(1)>>)>>

fork_inactive(tag) ==
    <<Rule(<<L("%%\n")>> \o Grp(1, <<NotStar({"%"})>>),
           <<L("%%\n"), Ref(1), L("%" \o tag \o "\n"), Ref(1)>>)>>

\* items: vars.items(), <<name, value>>
fork_with_new_var(tag, items) ==
    <<Rule(<<L("%%\n")>> \o Grp(1, <<NotStar({"%"})>>),
           <<L("%%\n"), Ref(1), L("%" \o tag \o "\n"), Ref(1),
             L(JoinItems(items) \o "\n")>>)>>

fix_double_list ==
    [i \in 1..10 |-> Rule(<<L(";;")>>, <<L(";")>>)]
        \o <<Rule(<<L(": ;")>>, <<L(": ")>>)>>

\* (mutant) only the header line goes
destroy_active_threads_Header == <<Rule(<<L("%%\n")>>, <<>>)>>

destroy_active_threads ==
    <<Rule(Grp(1, <<L("%%\n"), NotStar({"%"})>>), <<>>)>>

variable_uniq(variable) ==
    [i \in 1..10 |->
        Rule(Grp(1, <<L("%%"), NotStar({"%"}), L("#" \o variable \o ": "), NotStar({"\n"})>>)
               \o Grp(2, <<NotStar({";", "\n"}), L(";")>>) \o <<RefPlus(2)>>
               \o Grp(3, <<NotStar({"%", "\n"})>>),
             <<Ref(1), Ref(2), Ref(3)>>)]

boolean_not ==
    <<Rule(Grp(1, <<L(Hdr)>>) \o <<L("True\n")>>, <<Ref(1), L(BT \o "False\n")>>),
      Rule(Grp(1, <<L(Hdr)>>) \o <<L("False\n")>>, <<Ref(1), L(BT \o "True\n")>>),
      Rule(<<L(BT)>>, <<>>)>>

boolean_and ==
    <<Rule(Grp(1, <<L(Hdr)>>) \o <<L("True\nTrue\n")>>, <<Ref(1), L(BT \o "True\n")>>),
      Rule(Grp(1, <<L(Hdr)>>) \o Grp(2, <<Not({BT}), NotStar({"\n"})>>) \o <<L("\n")>>
             \o Grp(3, <<NotStar({"\n"})>>) \o <<L("\n")>>,
           <<Ref(1), L("False\n")>>),
      Rule(<<L(BT)>>, <<>>)>>

boolean_or ==
    <<Rule(Grp(1, <<L(Hdr)>>) \o <<L("False\nFalse\n")>>, <<Ref(1), L(BT \o "False\n")>>),
      Rule(Grp(1, <<L(Hdr)>>) \o Grp(2, <<Not({BT}), NotStar({"\n"})>>) \o <<L("\n")>>
             \o Grp(3, <<NotStar({"\n"})>>) \o <<L("\n")>>,
           <<Ref(1), L("True\n")>>),
      Rule(<<L(BT)>>, <<>>)>>

neq == eq \o boolean_not

join_pop(subtag) ==
    <<Rule(Grp(1, <<L(Hdr)>>) \o Grp(2, <<NotStar({"\n"}), L("\n")>>)
             \o Grp(3, <<NotStar({"%"})>>) \o <<L("%" \o subtag \o "\n#stack:\n")>>
             \o Grp(4, <<NotStar({"\n"}), L("\n")>>) \o <<NotStar({"%"})>>,
           <<Ref(1), Ref(4), Ref(2), Ref(3)>>)>>

delete_var(var) ==
    <<Rule(Grp(1, <<L("%%"), NotStar({"%"})>>)
             \o Grp(2, <<L("#" \o var \o ": "), NotStar({"\n"}), L("\n")>>),
           <<Ref(1)>>)>>

\* dst_var: <<>> for None, <<name>> for a name
list_pop(src_list_var, dst_var) ==
    <<Rule(Grp(1, <<L("%%"), NotStar({"%"}), L("#stack:\n")>>)
             \o Grp(2, <<NotStar({"%"}), L("#" \o src_list_var \o ": ")>>)
             \o Grp(3, <<NotStar({"\n", ";"})>>) \o <<L(";")>>
             \o Grp(4, <<NotStar({";", "\n"})>>),
           <<Ref(1), Ref(3), L("\n"), Ref(2), Ref(4)>>)>>
        \o (IF dst_var # <<>> THEN assign_pop(dst_var[1]) ELSE <<>>)

fork_list_pop(src_list_var, dst_var, tag) ==
    list_pop(src_list_var, <<>>) \o fork_inactive("zztmp") \o pause("zz1tmp")
        \o reactivate("zztmp") \o assign_pop(dst_var) \o delete_var(src_list_var)
        \o pause(tag) \o reactivate("zz1tmp") \o pop

\* s written n times
RECURSIVE Times(_, _)
Times(s, n) ==
    IF n = 0 THEN ""
    ELSE LET half == Times(s, n \div 2)
         IN half \o half \o (IF n % 2 = 1 THEN s ELSE "")

RECURSIVE Pow2(_)
Pow2(n) == IF n = 0 THEN 1 ELSE 2 * Pow2(n - 1)

Bits == {"0", "1"}

\* (mutant) what is left of int is not dropped
to_unary_KeepInt ==
    [j \in 1..10 |->
        LET bit == 10 - j IN
        Rule(Grp(1, <<L(Hdr)>>) \o <<L("int")>>
               \o Grp(2, <<Rep(FALSE, Bits, 9 - bit, 9 - bit)>>) \o <<L("1")>>
               \o Grp(3, <<Rep(FALSE, Bits, bit, bit)>>),
             <<Ref(1), L("int"), Ref(2), L("0"), Ref(3), L(Times("A", Pow2(bit)))>>)]

\* the rules for bit 9 down to bit 0, and the rule that drops what is left of int
to_unary ==
    [j \in 1..10 |->
        LET bit == 10 - j IN
        Rule(Grp(1, <<L(Hdr)>>) \o <<L("int")>>
               \o Grp(2, <<Rep(FALSE, Bits, 9 - bit, 9 - bit)>>) \o <<L("1")>>
               \o Grp(3, <<Rep(FALSE, Bits, bit, bit)>>),
             <<Ref(1), L("int"), Ref(2), L("0"), Ref(3), L(Times("A", Pow2(bit)))>>)]
        \o <<Rule(Grp(1, <<L(Hdr)>>) \o Grp(2, <<L("int"), Star({"0"})>>), <<Ref(1)>>)>>

\* the rule that writes int before the As, then for bit 9 down to bit 0 the
\* rule that sets the bit and the rule that clears it
from_unary ==
    <<Rule(Grp(1, <<L(Hdr)>>) \o Grp(2, <<Star({"A"})>>), <<Ref(1), L("int"), Ref(2)>>)>>
        \o [j \in 1..20 |->
              LET bit == 10 - ((j + 1) \div 2) IN
              IF j % 2 = 1
              THEN Rule(Grp(1, <<L(Hdr \o "int"), Star(Bits)>>)
                          \o Grp(2, <<Rep(FALSE, {"A"}, Pow2(bit), Pow2(bit))>>)
                          \o Grp(3, <<Star({"A"})>>),
                        <<Ref(1), L("1"), Ref(3)>>)
              ELSE Rule(Grp(1, <<L(Hdr)>>) \o <<L("int")>>
                          \o Grp(2, <<Rep(FALSE, Bits, 9 - bit, 9 - bit)>>)
                          \o Grp(3, <<Not(Bits), Star({"A"})>>),
                        <<Ref(1), L("int"), Ref(2), L("0"), Ref(3)>>)]

add_unary ==
    <<Rule(Grp(1, <<L(Hdr)>>) \o Grp(2, <<Star({"A"})>>) \o <<L("\n")>>
             \o Grp(3, <<Star({"A"})>>) \o <<L("\n")>>,
           <<Ref(1), Ref(2), Ref(3), L("\n")>>)>>

\* (mutant) the rule for x < y left out
sub_unary_NoClamp ==
    <<Rule(Grp(1, <<L(Hdr)>>) \o Grp(2, <<Star({"A"})>>) \o <<L("\n"), Ref(2)>>
             \o Grp(3, <<Star({"A"})>>) \o <<L("\n")>>,
           <<Ref(1), L(BT \o "sub"), Ref(3), L("\n")>>),
      Rule(<<L(BT \o "sub")>> \o Grp(1, <<Star({"A"})>>) \o <<L("\n")>>,
           <<Ref(1), L("\n")>>),
      Rule(<<L(BT \o "zero\n")>>, <<L("\n")>>)>>

\* the rule for second >= top, the rule for second < top, and the two rules
\* that remove the marks
sub_unary ==
    <<Rule(Grp(1, <<L(Hdr)>>) \o Grp(2, <<Star({"A"})>>) \o <<L("\n"), Ref(2)>>
             \o Grp(3, <<Star({"A"})>>) \o <<L("\n")>>,
           <<Ref(1), L(BT \o "sub"), Ref(3), L("\n")>>),
      Rule(Grp(1, <<L(Hdr)>>) \o Grp(2, <<Star({"A"})>>) \o <<L("\n")>>
             \o Grp(3, <<Star({"A"})>>) \o <<L("\n")>>,
           <<Ref(1), L(BT \o "zero\n")>>),
      Rule(<<L(BT \o "sub")>> \o Grp(1, <<Star({"A"})>>) \o <<L("\n")>>,
           <<Ref(1), L("\n")>>),
      Rule(<<L(BT \o "zero\n")>>, <<L("\n")>>)>>

\* (mutant) True also when the two values are equal
greater_than_OrEqual ==
    <<Rule(Grp(1, <<L(Hdr)>>) \o Grp(2, <<Star({"A"})>>) \o Grp(3, <<Star({"A"})>>)
             \o <<L("\n"), Ref(2), L("\n")>>,
           <<Ref(1), L(BT \o "True\n")>>),
      Rule(Grp(1, <<L(Hdr)>>) \o Grp(2, <<NotStar({BT, "\n"})>>) \o <<L("\n")>>
             \o Grp(3, <<NotStar({"\n"})>>) \o <<L("\n")>>,
           <<Ref(1), L("False\n")>>),
      Rule(<<L(BT)>>, <<>>)>>

greater_than ==
    <<Rule(Grp(1, <<L(Hdr)>>) \o Grp(2, <<Star({"A"})>>) \o Grp(3, <<Plus({"A"})>>)
             \o <<L("\n"), Ref(2), L("\n")>>,
           <<Ref(1), L(BT \o "True\n")>>),
      Rule(Grp(1, <<L(Hdr)>>) \o Grp(2, <<NotStar({BT, "\n"})>>) \o <<L("\n")>>
             \o Grp(3, <<NotStar({"\n"})>>) \o <<L("\n")>>,
           <<Ref(1), L("False\n")>>),
      Rule(<<L(BT)>>, <<>>)>>

less_than == swap \o greater_than

less_equal_than == greater_than \o boolean_not

greater_equal_than == less_than \o boolean_not

\* the four rules of binary_add for one bit
AddBit(bit) ==
    <<Rule(Grp(1, <<L(Hdr \o "bit:")>>) \o <<L("AA")>>, <<Ref(1), L("A")>>),
      Rule(Grp(1, <<L(Hdr \o "bit:"), Star({"A"})>>) \o <<L("\nint")>>
             \o Grp(2, <<Rep(FALSE, Bits, 9 - bit, 9 - bit)>>) \o <<L("1")>>
             \o Grp(3, <<Rep(FALSE, Bits, bit, bit)>>),
           <<Ref(1), L("A\nint"), Ref(2), L("0"), Ref(3)>>),
      Rule(Grp(1, <<L(Hdr \o "bit:"), Star({"A"})>>)
             \o Grp(2, <<L("\nint"), NotStar({"\n"}), L("\nint"),
                         Rep(FALSE, Bits, 9 - bit, 9 - bit), L("1"),
                         Rep(FALSE, Bits, bit, bit)>>),
           <<Ref(1), L("A"), Ref(2)>>),
      Rule(Grp(1, <<L(Hdr \o "bit:")>> \o Grp(2, <<Alt(<<"AA", "">>)>>)) \o <<L("A\nint")>>
             \o Grp(3, <<Rep(FALSE, Bits, 9 - bit, 9 - bit)>>) \o <<L("0")>>
             \o Grp(4, <<Rep(FALSE, Bits, bit, bit)>>),
           <<Ref(1), L("\nint"), Ref(3), L("1"), Ref(4)>>)>>

RECURSIVE AddBits(_)
AddBits(n) == IF n = 0 THEN <<>> ELSE AddBits(n - 1) \o AddBit(n - 1)

\* (mutant) the sum is left below the second operand
binary_add_NoSwap ==
    <<Rule(Grp(1, <<L(Hdr)>>), <<Ref(1), L("bit:\n")>>)>> \o AddBits(10) \o pop \o pop

\* the rule that pushes the carry line, the rules of bit 0 up to bit 9, and
\* pop, swap, pop
binary_add ==
    <<Rule(Grp(1, <<L(Hdr)>>), <<Ref(1), L("bit:\n")>>)>> \o AddBits(10)
        \o pop \o swap \o pop

\* the four rules of binary_subtract for one bit
SubBit(bit) ==
    <<Rule(Grp(1, <<L(Hdr \o "bit:")>>) \o <<L("AA")>>, <<Ref(1), L("A")>>),
      Rule(Grp(1, <<L(Hdr \o "bit:"), Star({"A"})>>) \o <<L("\nint")>>
             \o Grp(2, <<Rep(FALSE, Bits, 9 - bit, 9 - bit)>>) \o <<L("1")>>
             \o Grp(3, <<Rep(FALSE, Bits, bit, bit)>>),
           <<Ref(1), L("A\nint"), Ref(2), L("0"), Ref(3)>>),
      Rule(Grp(1, <<L(Hdr \o "bit:"), Star({"A"})>>)
             \o Grp(2, <<L("\nint"), NotStar({"\n"}), L("\nint"),
                         Rep(FALSE, Bits, 9 - bit, 9 - bit), L("0"),
                         Rep(FALSE, Bits, bit, bit)>>),
           <<Ref(1), L("A"), Ref(2)>>),
      Rule(Grp(1, <<L(Hdr \o "bit:")>> \o Grp(2, <<Alt(<<"AA", "">>)>>)) \o <<L("A\nint")>>
             \o Grp(3, <<Rep(FALSE, Bits, 9 - bit, 9 - bit)>>) \o <<L("0")>>
             \o Grp(4, <<Rep(FALSE, Bits, bit, bit)>>),
           <<Ref(1), L("\nint"), Ref(3), L("1"), Ref(4)>>)>>

RECURSIVE SubBits(_)
SubBits(n) == IF n = 0 THEN <<>> ELSE SubBits(n - 1) \o SubBit(n - 1)

\* the rule that pushes the carry line with one A, the rules of bit 0 up to bit
\* 9, pop, swap, pop, and the rule that writes 0 over a literal whose first bit is 1
binary_subtract ==
    <<Rule(Grp(1, <<L(Hdr)>>), <<Ref(1), L("bit:A\n")>>)>> \o SubBits(10)
        \o pop \o swap \o pop
        \o <<Rule(Grp(1, <<L(Hdr)>>) \o <<L("int1"), Star(Bits)>>,
                  <<Ref(1), L("int0000000000")>>)>>

IllegalText == "*Illegal Move*\nYou Lose.\nGame over.\n"

illegal_move == <<Rule(<<Bos, NotStar({"%", "<"}), Eos>>, <<L(IllegalText)>>)>>

\* the moves among the lines typed that [a-h][1-8][a-h][1-8]|q accepts
TypedMoves == <<"e2e4", "e2e5", "q">>

\* unpretty(has_move = True) with the rows of the board and the pieces left out: the
\* lines of the castling rights and of the move become a thread, and the white
\* space before a header is dropped
unpretty ==
    <<Rule(<<L("[Castling Rights: ")>> \o Grp(1, <<NotStar({"\n"})>>)
             \o <<L(", En Passant: ")>> \o Grp(2, <<NotStar({"\n"})>>)
             \o <<L("]\nEnter Your Move: ")>> \o Grp(3, <<Alt(TypedMoves)>>)
             \o <<NotStar({})>>,
           <<L("%%\n#stack:\n#castling: "), Ref(1), L("\n#ep: "), Ref(2),
             L("\n#move: "), Ref(3), L("\n")>>),
      Rule(<<Star({" ", "\n"}), L("%")>>, <<L("%")>>)>>

\* make_pretty(has_move = True) with the rows of the board and the pieces left out
make_pretty ==
    <<Rule(<<L("%%\n")>>, <<>>),
      Rule(<<L("#castling: ")>> \o Grp(1, <<NotStar({"\n"})>>) \o <<L("\n#ep: ")>>
             \o Grp(2, <<NotStar({"\n"})>>) \o <<L("\n")>>,
           <<L("[Castling Rights: "), Ref(1), L(", En Passant: "), Ref(2), L("]\n")>>),
      Rule(<<L("#"), Not({"a", "b", "c", "d", "e", "f", "g", "h"}), NotStar({"\n"}), L("\n")>>,
           <<>>),
      Rule(<<L("]\n")>>, <<L("]\nEnter Your Move: ")>>)>>

\* create: the rule list eval(op) builds for one opcode of the stream
fork_bool(variable) ==
    <<Rule(<<L("%%\n")>> \o Grp(1, <<NotStar({"%"})>>),
           <<L("%%\n"), Ref(1), L("#" \o variable \o ": True\n%%\n"), Ref(1),
             L("#" \o variable \o ": False\n")>>)>>

\* (mutant) each value goes behind the values already in the list
assign_stack_to_Append(var, max_repeats) ==
    push("") \o assign_pop(var)
      \o [i \in 1..max_repeats |->
            Rule(Grp(1, <<L(Hdr)>>) \o Grp(2, <<NotStar({"%", "#", "\n"})>>) \o <<L("\n")>>
                   \o Grp(3, <<NotStar({"%"}), L("#" \o var \o ": ")>>)
                   \o Grp(4, <<NotStar({"\n"})>>),
                 <<Ref(1), Ref(3), Ref(4), Ref(2), L(";")>>)]

\* the variable is set to the empty string, then max_repeats times the top
\* value is moved in front of the list
assign_stack_to(var, max_repeats) ==
    push("") \o assign_pop(var)
      \o [i \in 1..max_repeats |->
            Rule(Grp(1, <<L(Hdr)>>) \o Grp(2, <<NotStar({"%", "#", "\n"})>>) \o <<L("\n")>>
                   \o Grp(3, <<NotStar({"%"}), L("#" \o var \o ": ")>>)
                   \o Grp(4, <<NotStar({"\n"})>>),
                 <<Ref(1), Ref(3), Ref(2), L(";"), Ref(4)>>)]

\* ([^%]|%)* takes every character up to the end of the text
keep_only_first_thread ==
    <<Rule(Grp(1, <<L("%%"), NotStar({"%"})>>) \o Grp(2, <<NotStar({})>>), <<Ref(1)>>)>>

\* keep_only_max_thread keeping the second thread of a pair
keep_only_max_thread_KeepSecond ==
    [i \in 1..100 |->
        IF i % 2 = 1
        THEN Rule(Grp(1, <<L(Hdr)>> \o Grp(2, <<Plus({"A"})>>) \o <<L("\n"), NotStar({"%"})>>)
                    \o Grp(3, <<L(Hdr), Ref(2), Star({"A"}), NotStar({"%"})>>),
                  <<Ref(3)>>)
        ELSE Rule(Grp(1, <<L("%%"), NotStar({"%"})>>) \o Grp(2, <<L("%%"), NotStar({"%"})>>),
                  <<Ref(2), Ref(1)>>)]

\* two rules, 50 times: of two adjacent threads whose second starts with the
\* unary value of the first, keep the first; then swap adjacent threads
keep_only_max_thread ==
    [i \in 1..100 |->
        IF i % 2 = 1
        THEN Rule(Grp(1, <<L(Hdr)>> \o Grp(2, <<Plus({"A"})>>) \o <<L("\n"), NotStar({"%"})>>)
                    \o Grp(3, <<L(Hdr), Ref(2), Star({"A"}), NotStar({"%"})>>),
                  <<Ref(1)>>)
        ELSE Rule(Grp(1, <<L("%%"), NotStar({"%"})>>) \o Grp(2, <<L("%%"), NotStar({"%"})>>),
                  <<Ref(2), Ref(1)>>)]

keep_only_min_thread == keep_only_max_thread

RulesOf(ins) ==
    CASE ins.op = "push" -> push(ins.arg)
      [] ins.op = "pop" -> pop
      [] ins.op = "dup" -> dup
      [] ins.op = "swap" -> swap
      [] ins.op = "eq" -> eq
      [] ins.op = "lookup" -> lookup(ins.arg)
      [] ins.op = "assign_pop" -> assign_pop(ins.arg)
      [] ins.op = "indirect_assign" -> indirect_assign
      [] ins.op = "is_stack_empty" -> is_stack_empty
      [] ins.op = "cond" -> cond(ins.arg)
      [] ins.op = "reactivate" -> reactivate(ins.arg)
      [] ins.op = "pause" -> pause(ins.arg)
      [] ins.op = "fork_inactive" -> fork_inactive(ins.arg)
      [] ins.op = "fork_with_new_var" -> fork_with_new_var(ins.arg, ins.more)
      [] ins.op = "fork_list_pop" ->
            fork_list_pop(ins.more[1][1], ins.more[1][2], ins.arg)
      [] ins.op = "fix_double_list" -> fix_double_list
      [] ins.op = "destroy_active_threads" -> destroy_active_threads
      [] ins.op = "variable_uniq" -> variable_uniq(ins.arg)
      [] ins.op = "boolean_not" -> boolean_not
      [] ins.op = "boolean_and" -> boolean_and
      [] ins.op = "boolean_or" -> boolean_or
      [] ins.op = "neq" -> neq
      [] ins.op = "join_pop" -> join_pop(ins.arg)
      [] ins.op = "delete_var" -> delete_var(ins.arg)
      [] ins.op = "list_pop" -> list_pop(ins.arg, <<ins.more[1][1]>>)
      [] ins.op = "to_unary" -> to_unary
      [] ins.op = "from_unary" -> from_unary
      [] ins.op = "add_unary" -> add_unary
      [] ins.op = "sub_unary" -> sub_unary
      [] ins.op = "greater_than" -> greater_than
      [] ins.op = "less_than" -> less_than
      [] ins.op = "less_equal_than" -> less_equal_than
      [] ins.op = "greater_equal_than" -> greater_equal_than
      [] ins.op = "binary_add" -> binary_add
      [] ins.op = "illegal_move" -> illegal_move
      [] ins.op = "unpretty" -> unpretty
      [] ins.op = "make_pretty" -> make_pretty
      [] ins.op = "binary_subtract" -> binary_subtract
      [] ins.op = "fork_bool" -> fork_bool(ins.arg)
      [] ins.op = "assign_stack_to" -> assign_stack_to(ins.arg, ins.more[1])
      [] ins.op = "keep_only_first_thread" -> keep_only_first_thread
      [] ins.op = "keep_only_max_thread" -> keep_only_max_thread
      [] ins.op = "keep_only_min_thread" -> keep_only_min_thread

\* the state after the rules of one opcode have each been applied once, in order
Exec(ins, text) == ApplyRules(RulesOf(ins), text)

\* create(linear): each opcode with the rule list eval(op)(*args) builds
create(sequence) == [i \in 1..Len(sequence) |-> <<sequence[i], RulesOf(sequence[i])>>]

-----------------------------------------------------------------------------
(* The text machine: a text of threads, and the rules of a stream of opcodes *)
(* applied to it opcode by opcode.                                           *)

\* a thread: the label of its header ("%" when it is active), its stack from the
\* top down, and its variables as <<name, value>> in the order of their lines
Thread(tag, stack, variables) == [tag |-> tag, stack |-> stack, vars |-> variables]

RECURSIVE StackLines(_)
StackLines(stack) ==
    IF stack = <<>> THEN "" ELSE Head(stack) \o "\n" \o StackLines(Tail(stack))

RECURSIVE VarLines(_)
VarLines(variables) ==
    IF variables = <<>> THEN ""
    ELSE "#" \o Head(variables)[1] \o ": " \o Head(variables)[2] \o "\n"
            \o VarLines(Tail(variables))

\* the text of one thread: its header, which carries the label of a parked
\* thread, its stack lines and its variable lines in the order they stand in
ThreadText(th) ==
    "%" \o th.tag \o "\n#stack:\n" \o StackLines(th.stack) \o VarLines(th.vars)

\* the text of several threads, one after the other
RECURSIVE Text(_)
Text(ths) == IF ths = <<>> THEN "" ELSE ThreadText(Head(ths)) \o Text(Tail(ths))

ThreadLists(shapes) == UNION {[1..n -> shapes] : n \in 0..MaxThreads}

\* the rules of a compiled if/else whose arms are the two lists of assignments
CompiledIfElse(thenNodes, elseNodes) ==
    BranchCode(next_tag(0), next_tag(1), <<>>,
               linearize_subtree(Some(thenNodes), 2).ins,
               linearize_subtree(Some(elseNodes), 2).ins)

NodesOf(stmts) == [i \in 1..Len(stmts) |-> AssignNode(stmts[i].key, stmts[i].value)]

\* threads that hold the value of a condition on top of their stack, and a
\* thread parked under a label of its own
CondThreads ==
    {Thread("%", <<b>> \o rest, variables) :
        b \in {"True", "False"},
        rest \in {<<>>, <<"x">>},
        variables \in {<<>>, << <<"q", "1">>, <<"r", "old">> >>}}
        \cup {Thread("P", <<"True">>, << <<"r", "old">> >>)}

ElseArms == {IfElse[1].else, <<SAssign("r", Lit("no"))>>}

InitRun ==
    /\ threads \in ThreadLists(CondThreads)
    /\ state = Text(threads)
    /\ \E arm \in ElseArms : code = CompiledIfElse(NodesOf(IfElse[1].then), NodesOf(arm))
    /\ ip = 0
    /\ pc = "exec"
    /\ progId = 0
    /\ tree = <<>>
    /\ active_path = <<>>
    /\ pointer = 0
    /\ pointer_hist = <<>>
    /\ active_path_hist = <<>>
    /\ todo = <<>>
    /\ iter = 0
    /\ last = NoOp
    /\ linear = <<>>
    /\ tags = <<>>
    /\ compiled = <<>>
    /\ printed = <<>>

\* for pattern, repl in regexs: state = re.sub(pattern, repl, state), for the
\* rules of the next opcode
Step ==
    /\ pc = "exec"
    /\ ip < Len(code)
    /\ state' = Exec(code[ip + 1], state)
    /\ ip' = ip + 1
    /\ UNCHANGED <<code, threads, pc, printed>>
    /\ UNCHANGED traceVars

NextRun == Step

SpecRun == InitRun /\ [][NextRun]_vars

\* threads for single instructions: active or parked, with an empty stack or two
\* values on it
ISAThreads ==
    {Thread(tag, body[1], body[2]) :
        tag \in {"%", "T"},
        body \in {<< <<>>, <<>> >>,
                  << <<"v", "p">>, << <<"q", "1">> >> >>,
                  << <<"v", "p">>, << <<"p", "old">>, <<"q", "1">> >> >>,
                  << <<"True", "x">>, <<>> >>}}

Library ==
    {Ins("push", "k"), Ins("pop", ""), Ins("dup", ""), Ins("swap", ""), Ins("eq", ""),
     Ins("lookup", "q"), Ins("assign_pop", "r"), Ins("assign_pop", "q"),
     Ins("indirect_assign", ""), Ins("is_stack_empty", ""), Ins("cond", "UID1"),
     Ins("reactivate", "T"), Ins("pause", "UID1")}

\* how many values an opcode takes from the stack of an active thread
Takes(ins) ==
    CASE ins.op \in {"pop", "dup", "assign_pop", "cond", "boolean_not", "join_pop",
                     "fork_list_pop", "to_unary", "from_unary"} -> 1
      [] ins.op \in {"swap", "eq", "indirect_assign", "boolean_and", "boolean_or", "neq",
                     "add_unary"} -> 2
      [] OTHER -> 0

\* the active threads hold what the opcode takes; cond takes a truth value
Applicable(ins, ths) ==
    \A i \in 1..Len(ths) :
        ths[i].tag = "%" =>
            /\ Len(ths[i].stack) >= Takes(ins)
            /\ (ins.op = "cond" => ths[i].stack[1] \in {"True", "False"})

InitISA ==
    /\ threads \in ThreadLists(ISAThreads)
    /\ threads # <<>>
    /\ state = Text(threads)
    /\ \E ins \in Library : Applicable(ins, threads) /\ code = <<ins>>
    /\ ip = 0
    /\ pc = "exec"
    /\ progId = 0
    /\ tree = <<>>
    /\ active_path = <<>>
    /\ pointer = 0
    /\ pointer_hist = <<>>
    /\ active_path_hist = <<>>
    /\ todo = <<>>
    /\ iter = 0
    /\ last = NoOp
    /\ linear = <<>>
    /\ tags = <<>>
    /\ compiled = <<>>
    /\ printed = <<>>

NextISA == Step

SpecISA == InitISA /\ [][NextISA]_vars

\* the compiler's variables while only the rules run
TraceIdle ==
    /\ progId = 0
    /\ tree = <<>>
    /\ active_path = <<>>
    /\ pointer = 0
    /\ pointer_hist = <<>>
    /\ active_path_hist = <<>>
    /\ todo = <<>>
    /\ iter = 0
    /\ last = NoOp
    /\ linear = <<>>
    /\ tags = <<>>
    /\ compiled = <<>>
    /\ printed = <<>>

\* most threads in a text the thread instructions are applied to
MaxFrameThreads == 3

\* active threads and threads parked under T, with truth values, lists with ;;
\* and plain values on their stacks and in their variables
FrameThreads ==
    {Thread("%", <<"True", "False">>, << <<"l", "a;a;;b;">> >>),
     Thread("%", <<"False", "x">>, <<>>),
     Thread("%", <<>>, << <<"q", "1">> >>),
     Thread("T", <<"a;;b", "True">>, << <<"l", ";x;;y;y;">> >>),
     Thread("T", <<>>, << <<"q", ": ;1">> >>)}

FrameLibrary ==
    Library \cup
    {Ins("fork_inactive", "W"),
     InsMore("fork_with_new_var", "W", <<>>),
     InsMore("fork_with_new_var", "W", << <<"a", "1">> >>),
     InsMore("fork_with_new_var", "W", << <<"a", "1">>, <<"b", "2">> >>),
     InsMore("fork_list_pop", "maybe", << <<"l", "d">> >>),
     Ins("fix_double_list", ""), Ins("destroy_active_threads", ""),
     Ins("variable_uniq", "l"), Ins("boolean_not", ""), Ins("boolean_and", ""),
     Ins("boolean_or", ""), Ins("neq", ""), Ins("join_pop", "T"),
     Ins("delete_var", "l"), InsMore("list_pop", "l", << <<"d", "">> >>)}

InitFrame ==
    /\ threads \in UNION {[1..n -> FrameThreads] : n \in 1..MaxFrameThreads}
    /\ state = Text(threads)
    /\ \E ins \in FrameLibrary : Applicable(ins, threads) /\ code = <<ins>>
    /\ ip = 0
    /\ pc = "exec"
    /\ TraceIdle

NextFrame == Step

SpecFrame == InitFrame /\ [][NextFrame]_vars

\* threads for parking and joining: a main thread, a thread with nothing in it,
\* two results parked under sub, and a thread parked under T
SeqThreads ==
    {Thread("%", <<"m">>, << <<"q", "1">> >>),
     Thread("%", <<>>, <<>>),
     Thread("sub", <<"x">>, << <<"r", "1">> >>),
     Thread("sub", <<"y">>, <<>>),
     Thread("T", <<"z">>, <<>>)}

\* for _ in range(maxn): variables.join_pop(sub)
JoinPops(subtag, maxn) == [i \in 1..maxn |-> Ins("join_pop", subtag)]

Sequences ==
    {<<Ins("pause", "P"), Ins("reactivate", "P")>>,
     <<Ins("pause", "T"), Ins("reactivate", "T")>>,
     JoinPops("sub", MaxFrameThreads)}

InitSeq ==
    /\ threads \in UNION {[1..n -> SeqThreads] : n \in 1..MaxFrameThreads}
    /\ state = Text(threads)
    /\ code \in Sequences
    /\ ip = 0
    /\ pc = "exec"
    /\ TraceIdle

NextSeq == Step

SpecSeq == InitSeq /\ [][NextSeq]_vars

\* an active thread with two values on its stack, the empty string among them,
\* alone or followed by a parked thread
StackValues == {"", "x", "y"}

ValueThreads ==
    {Thread("%", <<a, b>> \o rest, variables) :
        a \in StackValues, b \in StackValues,
        rest \in {<<>>, <<"z">>},
        variables \in {<<>>, << <<"q", "1">> >>}}

ValueLibrary == {Ins("eq", ""), Ins("neq", ""), Ins("swap", ""), Ins("dup", ""), Ins("pop", "")}

InitValues ==
    /\ \E th \in ValueThreads :
          threads \in {<<th>>, <<th, Thread("T", <<"x">>, <<>>)>>}
    /\ state = Text(threads)
    /\ \E ins \in ValueLibrary : code = <<ins>>
    /\ ip = 0
    /\ pc = "exec"
    /\ TraceIdle

NextValues == Step

SpecValues == InitValues /\ [][NextValues]_vars

\* f"int{n:010b}"
RECURSIVE Binary(_, _)
Binary(n, width) ==
    IF width = 0 THEN ""
    ELSE Binary(n \div 2, width - 1) \o (IF n % 2 = 1 THEN "1" ELSE "0")

IntLiteral(n) == "int" \o Binary(n, 10)

\* the numbers the additions are run on
Operands == {0, 1, 5, 300, 511, 512, 724, 1023}

\* test_multiple_unary_additions.run_addition_test
AdditionCode(num1, num2) ==
    <<Ins("push", IntLiteral(num1)), Ins("to_unary", ""),
      Ins("push", IntLiteral(num2)), Ins("to_unary", ""),
      Ins("add_unary", ""), Ins("from_unary", "")>>

InitArith ==
    /\ threads = <<Thread("%", <<>>, <<>>)>>
    /\ state = Text(threads)
    /\ \E x \in Operands : \E y \in Operands : code = AdditionCode(x, y)
    /\ ip = 0
    /\ pc = "exec"
    /\ TraceIdle

NextArith == Step

SpecArith == InitArith /\ [][NextArith]_vars

\* the states the number instructions are run on: an empty thread, and a thread
\* with a unary value and a variable, followed by a parked thread
NumberThreads ==
    {<<Thread("%", <<>>, <<>>)>>,
     <<Thread("%", <<"AA">>, << <<"foo", "bar">> >>),
       Thread("T", <<"A", "int0000000001">>, <<>>)>>}

InitNumbers(codes) ==
    /\ threads \in NumberThreads
    /\ state = Text(threads)
    /\ code \in codes
    /\ ip = 0
    /\ pc = "exec"
    /\ TraceIdle

\* the numbers the subtractions and the comparisons are run on
SmallOperands == {0, 1, 4, 5, 6, 100}

\* test_multiple_unary_subtractions.run_subtraction_test
SubtractionCode(num1, num2) ==
    <<Ins("push", IntLiteral(num1)), Ins("to_unary", ""),
      Ins("push", IntLiteral(num2)), Ins("to_unary", ""),
      Ins("sub_unary", ""), Ins("from_unary", "")>>

InitSub == InitNumbers({SubtractionCode(x, y) : x \in SmallOperands \cup {1023}, y \in SmallOperands})

NextSub == Step

SpecSub == InitSub /\ [][NextSub]_vars

\* the numbers the conversions are run on
ConvertedNumbers == (0..7) \cup {100, 255, 256, 511, 512, 682, 1022, 1023}

\* test_to_unary_conversion followed by test_from_unary_conversion
RoundTripCode(num) == <<Ins("push", IntLiteral(num)), Ins("to_unary", ""), Ins("from_unary", "")>>

InitConvert == InitNumbers({RoundTripCode(n) : n \in ConvertedNumbers})

NextConvert == Step

SpecConvert == InitConvert /\ [][NextConvert]_vars

Comparisons == {"greater_than", "less_than", "greater_equal_than", "less_equal_than"}

\* run_comparison_test: num2 is pushed first, num1 second
ComparisonCode(operation, num1, num2) ==
    <<Ins("push", IntLiteral(num2)), Ins("to_unary", ""),
      Ins("push", IntLiteral(num1)), Ins("to_unary", ""),
      Ins(operation, "")>>

InitCompare ==
    InitNumbers({ComparisonCode(o, x, y) : o \in Comparisons, x \in SmallOperands, y \in SmallOperands})

NextCompare == Step

SpecCompare == InitCompare /\ [][NextCompare]_vars

\* the numbers the binary additions are run on
BinaryOperands == {0, 1, 3, 5, 255, 341, 512, 682, 1023}

\* linearize_expr of x + y with two int literals: push x, push y, binary_add
BinaryAddCode(x, y) ==
    <<Ins("push", IntLiteral(x)), Ins("push", IntLiteral(y)), Ins("binary_add", "")>>

InitBinary == InitNumbers({BinaryAddCode(x, y) : x \in BinaryOperands, y \in BinaryOperands})

NextBinary == Step

SpecBinary == InitBinary /\ [][NextBinary]_vars

\* the operators of Tracer with two operands
BinaryOps == {"==", "!=", "strcat", "and", "or", "<", ">", "<=", ">=", "+", "-"}

\* operands whose opcodes differ and of which none begins with another's
ExprOperands == {Lookup("a"), Lookup("b"), Lit("x"), Eq(Lookup("c"), Lit("y"))}

\* variables['r'] = a op b, traced
InitExpr ==
    /\ \E op \in BinaryOps : \E a \in ExprOperands : \E b \in ExprOperands :
          tree = <<AssignNode("r", Binary2(op, a, b))>>
    /\ pc = "done"
    /\ progId = 0
    /\ active_path = <<>>
    /\ pointer = 1
    /\ pointer_hist = <<>>
    /\ active_path_hist = <<>>
    /\ todo = <<>>
    /\ iter = K
    /\ last = NoOp
    /\ linear = <<>>
    /\ tags = <<>>
    /\ compiled = <<>>
    /\ printed = <<>>
    /\ state = ""
    /\ code = <<>>
    /\ ip = 0
    /\ threads = <<>>

NextExpr == Linearize

SpecExpr == InitExpr /\ [][NextExpr]_vars

-----------------------------------------------------------------------------
(* CPUState of tests.py: a dict of variables, a stack, and the two conversions *)

CPUState(variables, stack) == [variables |-> variables, stack |-> stack]

\* the characters of names and values, in the order of their code points
CodePoints == " #0123456789:ABCDEFGHIJKLMNOPQRSTUVWXYZ_abcdefghijklmnopqrstuvwxyz"

Ord(c) == CHOOSE i \in 1..Len(CodePoints) : CharAt(CodePoints, i) = c

\* a < b for two str
RECURSIVE StrLess(_, _)
StrLess(a, b) ==
    IF b = "" THEN FALSE
    ELSE IF a = "" THEN TRUE
    ELSE IF CharAt(a, 1) = CharAt(b, 1) THEN StrLess(Slice(a, 2, Len(a)), Slice(b, 2, Len(b)))
    ELSE Ord(CharAt(a, 1)) < Ord(CharAt(b, 1))

\* sorted(self.variables.items()), as <<name, value>> pairs
RECURSIVE SortedItems(_, _)
SortedItems(variables, names) ==
    IF names = {} THEN <<>>
    ELSE LET least == CHOOSE n \in names : \A o \in names : o = n \/ StrLess(n, o)
         IN << <<least, variables[least]>> >> \o SortedItems(variables, names \ {least})

to_string(cpu) ==
    "%%\n#stack:\n" \o StackLines(cpu.stack)
        \o VarLines(SortedItems(cpu.variables, DOMAIN cpu.variables))

\* str.split('\n')
RECURSIVE SplitLines(_, _)
SplitLines(text, from) ==
    LET ends == {p \in from..Len(text) : CharAt(text, p) = "\n"}
    IN IF ends = {} THEN <<Slice(text, from, Len(text))>>
       ELSE LET p == CHOOSE q \in ends : \A j \in ends : q <= j
            IN <<Slice(text, from, p - 1)>> \o SplitLines(text, p + 1)

\* str.strip() of a line, whose only white space is the space
strip(line) ==
    LET inked == {p \in 1..Len(line) : CharAt(line, p) # " "}
    IN IF inked = {} THEN ""
       ELSE Slice(line, CHOOSE p \in inked : \A j \in inked : p <= j,
                        CHOOSE p \in inked : \A j \in inked : j <= p)

\* variables[name] = value
SetItem(variables, name, value) ==
    [n \in (DOMAIN variables) \cup {name} |-> IF n = name THEN value ELSE variables[n]]

\* the for loop of from_string over lines[i..]
RECURSIVE ParseLines(_, _, _, _)
ParseLines(lines, i, in_stack, cpu) ==
    IF i > Len(lines) THEN cpu
    ELSE LET line == strip(lines[i])
             colons == {p \in 2..Len(line) : CharAt(line, p) = ":"}
             colon == CHOOSE p \in colons : \A j \in colons : p <= j
         IN IF line = "" /\ ~in_stack THEN ParseLines(lines, i + 1, in_stack, cpu)
            ELSE IF ~StartsWith(line, 1, "#")
                 THEN ParseLines(lines, i + 1, in_stack,
                                 IF in_stack THEN [cpu EXCEPT !.stack = Append(@, line)]
                                 ELSE cpu)
            ELSE IF line = "#stack:" THEN ParseLines(lines, i + 1, TRUE, cpu)
            ELSE IF colons = {} THEN ParseLines(lines, i + 1, in_stack, cpu)
            ELSE ParseLines(lines, i + 1, in_stack,
                            [cpu EXCEPT !.variables =
                                SetItem(@, strip(Slice(line, 2, colon - 1)),
                                           strip(Slice(line, colon + 1, Len(line))))])

\* CPUState.from_string; a text that does not start with %% raises ValueError
from_string(state_str) ==
    IF ~StartsWith(state_str, 1, "%%") THEN [ok |-> FALSE, cpu |-> CPUState(<<>>, <<>>)]
    ELSE LET all == SplitLines(state_str, 1)
             lines == SubSeq(all, 1, Len(all) - 1)
         IN [ok |-> TRUE, cpu |-> ParseLines(lines, 2, FALSE, CPUState(<<>>, <<>>))]

\* the dict of a list of <<name, value>> pairs
RECURSIVE Dict(_)
Dict(items) ==
    IF items = <<>> THEN <<>>
    ELSE SetItem(Dict(SubSeq(items, 1, Len(items) - 1)),
                 items[Len(items)][1], items[Len(items)][2])

\* stacks and variable lines of the states the conversions are run on; a board
\* square holds a single space
ConvertedStacks == {<<>>, <<"v">>, <<"value1", "value2">>, <<"", "x">>, <<" ", "K">>}

ConvertedItems ==
    {<<>>,
     << <<"q", "1">> >>,
     << <<"p", "old">>, <<"q", "1">> >>,
     << <<"q", "1">>, <<"p", "old">> >>,
     << <<"var1", "test1">>, <<"var2", "test2">> >>,
     << <<"h1", " ">> >>,
     << <<"r", "">> >>}

\* pc = "text": a text state is parsed; pc = "object": a CPUState is written
InitState ==
    /\ \E stack \in ConvertedStacks : \E items \in ConvertedItems :
          \/ /\ pc = "text"
             /\ state = ThreadText(Thread("%", stack, items))
             /\ threads = <<>>
          \/ /\ pc = "object"
             /\ state = ""
             /\ threads = <<CPUState(Dict(items), stack)>>
    /\ code = <<>>
    /\ ip = 0
    /\ TraceIdle

\* CPUState.from_string(state)
FromString ==
    /\ pc = "text"
    /\ from_string(state).ok
    /\ threads' = <<from_string(state).cpu>>
    /\ pc' = "parsed"
    /\ UNCHANGED <<state, code, ip, printed>>
    /\ UNCHANGED traceVars

\* cpu_state.to_string() in test_state_conversion
StateToString ==
    /\ pc = "object"
    /\ state' = to_string(threads[1])
    /\ pc' = "written"
    /\ UNCHANGED <<threads, code, ip, printed>>
    /\ UNCHANGED traceVars

NextState ==
    \/ FromString
    \/ StateToString

SpecState == InitState /\ [][NextState]_vars

-----------------------------------------------------------------------------
(* Properties of linearize_tree *)

\* the opcodes seq stand in c from position pos on
HasAt(c, pos, seq) ==
    /\ pos + Len(seq) - 1 <= Len(c)
    /\ SubSeq(c, pos, pos + Len(seq) - 1) = seq

\* Reading the stream c against the tree: the position after the lowering of the
\* nodes i.. of list when it stands at pos, and 0 when something else stands there.
\* The labels are read from the stream.  Every node lowers to at least one opcode,
\* so the lowering of a list is empty exactly when the list is.
RECURSIVE ParseList(_, _, _, _)
RECURSIVE ParseNode(_, _, _)
ParseList(list, i, c, pos) ==
    IF pos = 0 THEN 0
    ELSE IF i > Len(list) THEN pos
    ELSE ParseList(list, i + 1, c, ParseNode(list[i], c, pos))

ParseNode(node, c, pos) ==
    IF node.op = "assign"
    THEN LET e == linearize_expr(node.value) \o <<Ins("assign_pop", node.key)>>
         IN IF HasAt(c, pos, e) THEN pos + Len(e) ELSE 0
    ELSE LET e == linearize_expr(node.value)
             p1 == pos + Len(e)
             T1 == c[p1].arg
             p2 == ParseList(node.left.list, 1, c, p1 + 1)
             T2 == c[p2].arg
             p3 == ParseList(node.right.list, 1, c, p2 + 2)
         IN IF ~(HasAt(c, pos, e) /\ p1 <= Len(c) /\ c[p1].op = "cond") THEN 0
            ELSE IF p2 = 0 THEN 0
            ELSE IF Len(node.right.list) > 0
            THEN IF /\ p2 + 1 <= Len(c)
                    /\ c[p2].op = "pause"
                    /\ c[p2 + 1] = Ins("reactivate", T1)
                    /\ p3 # 0
                    /\ p3 <= Len(c)
                    /\ c[p3] = Ins("reactivate", T2)
                 THEN p3 + 1 ELSE 0
            ELSE IF p2 <= Len(c) /\ c[p2] = Ins("reactivate", T1)
                 THEN p2 + 1 ELSE 0

\* some branch node below has an else arm that recorded nothing
RECURSIVE HasEmptyElse(_)
HasEmptyElse(list) ==
    \E i \in 1..Len(list) :
        /\ list[i].op = "branch"
        /\ \/ list[i].right.list = <<>>
           \/ HasEmptyElse(list[i].left.list)
           \/ HasEmptyElse(list[i].right.list)

\* some branch node below has an else arm that recorded something
RECURSIVE HasElse(_)
HasElse(list) ==
    \E i \in 1..Len(list) :
        /\ list[i].op = "branch"
        /\ \/ list[i].right.list # <<>>
           \/ HasElse(list[i].left.list)
           \/ HasElse(list[i].right.list)

\* C1: the stream linearize_tree returns is, node by node, the lowering of the
\* tree: a branch node gives the lowering of its condition, cond T1, the lowering
\* of L, and then pause T2, reactivate T1, the lowering of R, reactivate T2 when
\* the lowering of R is not empty, and reactivate T1 alone when it is; nothing
\* else stands in the stream.
C1_BranchLowering ==
    pc = "linearized" => ParseList(tree, 1, linear, 1) = Len(linear) + 1

C1_Witness ==
    /\ pc = "linearized"
    /\ HasEmptyElse(tree)
    /\ HasElse(tree)
    /\ \E i \in 1..Len(linear) : linear[i].op = "pause"

\* the number a label carries after its three letters
DigitSet == {"0", "1", "2", "3", "4", "5", "6", "7", "8", "9"}
DigitValue(ch) ==
    CASE ch = "0" -> 0 [] ch = "1" -> 1 [] ch = "2" -> 2 [] ch = "3" -> 3
      [] ch = "4" -> 4 [] ch = "5" -> 5 [] ch = "6" -> 6 [] ch = "7" -> 7
      [] ch = "8" -> 8 [] ch = "9" -> 9

RECURSIVE Value(_)
Value(s) ==
    IF s = "" THEN 0
    ELSE 10 * Value(Slice(s, 1, Len(s) - 1)) + DigitValue(CharAt(s, Len(s)))

IsLabel(tag) ==
    /\ Len(tag) > 3
    /\ Slice(tag, 1, 3) = "UID"
    /\ \A i \in 4..Len(tag) : CharAt(tag, i) \in DigitSet
    /\ (Len(tag) > 4 => CharAt(tag, 4) # "0")

Number(tag) == Value(Slice(tag, 4, Len(tag)))

\* some rule of the list matches somewhere in text
Matches(rules, text) ==
    \E r \in 1..Len(rules) : \E p \in 1..(Len(text) + 1) :
        Match(text, rules[r].pat, 1, p, NoCaps).ok

\* the header line a thread parked under a label carries, and what follows it
ParkedUnder(tag) == "%" \o tag \o "\n#stack:\nx\n#r: 1\n"

LabelOpcodes == {"cond", "pause", "reactivate"}

\* C3: the labels of one call of linearize_tree are pairwise distinct, their
\* numbers grow strictly in the order of allocation, the stream uses no other
\* label, and the rules of reactivate and of pause for one label match nothing
\* in a thread parked under another label of the call, while reactivate matches
\* the thread parked under its own.
C3_Labels ==
    pc = "linearized" =>
        /\ \A i \in 1..Len(tags) : IsLabel(tags[i])
        /\ \A i, j \in 1..Len(tags) : i # j => tags[i] # tags[j]
        /\ \A i \in 1..(Len(tags) - 1) : Number(tags[i]) < Number(tags[i + 1])
        /\ \A i \in 1..Len(linear) :
              linear[i].op \in LabelOpcodes => \E j \in 1..Len(tags) : tags[j] = linear[i].arg
        /\ \A i, j \in 1..Len(tags) :
              i # j => /\ ~Matches(reactivate(tags[i]), ParkedUnder(tags[j]))
                       /\ ~Matches(pause(tags[i]), ParkedUnder(tags[j]))
        /\ \A i \in 1..Len(tags) : Matches(reactivate(tags[i]), ParkedUnder(tags[i]))

C3_Witness ==
    /\ pc = "linearized"
    /\ Len(tags) >= 12
    /\ tags[2] = "UID1"
    /\ tags[11] = "UID10"
    /\ \E i \in 1..Len(linear) : linear[i] = Ins("reactivate", "UID10")

-----------------------------------------------------------------------------
(* Properties of the text machine *)

\* the assignments of an arm, <<name, value>> for each push value; assign_pop name
Assigns(arm) == [i \in 1..(Len(arm) \div 2) |-> <<arm[2 * i].arg, arm[2 * i - 1].arg>>]

PauseAt == CHOOSE i \in 1..Len(code) : code[i].op = "pause"
TrueArm == Assigns(SubSeq(code, 2, PauseAt - 1))
FalseArm == Assigns(SubSeq(code, PauseAt + 2, Len(code) - 1))

\* a variable list after name = value: the line of name rewritten, or a new last line
Assigned(variables, name, value) ==
    IF \E i \in 1..Len(variables) : variables[i][1] = name
    THEN [i \in 1..Len(variables) |->
            IF variables[i][1] = name THEN <<name, value>> ELSE variables[i]]
    ELSE Append(variables, <<name, value>>)

RECURSIVE AssignedAll(_, _)
AssignedAll(variables, arm) ==
    IF arm = <<>> THEN variables
    ELSE AssignedAll(Assigned(variables, Head(arm)[1], Head(arm)[2]), Tail(arm))

\* a thread after the if/else: a parked thread as it was; an active one without
\* the condition on its stack and with the assignments of its own arm, active
AfterIfElse(th) ==
    IF th.tag # "%" THEN th
    ELSE Thread("%", Tail(th.stack),
                AssignedAll(th.vars, IF Head(th.stack) = "True" THEN TrueArm ELSE FalseArm))

Contains(text, s) == \E p \in 1..(Len(text) + 1) : StartsWith(text, p, s)

\* C2: after the rules of cond T1, true arm, pause T2, reactivate T1, false arm,
\* reactivate T2 have run on a text of threads that each hold True or False on
\* top, every thread that held True has the assignments of the true arm and none
\* of the false arm, every thread that held False those of the false arm and none
\* of the true arm, every thread that was active is active, and no header
\* carries T1 or T2.
C2_IfElseRuns ==
    (pc = "exec" /\ ip = Len(code)) =>
        /\ state = Text([i \in 1..Len(threads) |-> AfterIfElse(threads[i])])
        /\ ~Contains(state, "%" \o code[1].arg \o "\n")
        /\ ~Contains(state, "%" \o code[PauseAt].arg \o "\n")

C2_Witness ==
    /\ pc = "exec"
    /\ ip = Len(code)
    /\ Len(threads) = 2
    /\ threads[1].tag = "%" /\ threads[1].stack[1] = "False"
    /\ threads[2].tag = "%" /\ threads[2].stack[1] = "True"
    /\ Contains(state, "#r: no\n")
    /\ Contains(state, "#r: yes\n#t: 1\n")
    /\ state = Text([i \in 1..Len(threads) |-> AfterIfElse(threads[i])])

\* what an opcode makes of each thread when the text holds that thread alone
RECURSIVE EachAlone(_, _)
EachAlone(ins, ths) ==
    IF ths = <<>> THEN ""
    ELSE Exec(ins, ThreadText(Head(ths))) \o EachAlone(ins, Tail(ths))

\* C10: an instruction applied to a text of N threads gives, thread by thread,
\* what it gives when applied to a text holding that thread alone.
C10_Isolation ==
    (pc = "exec" /\ Len(code) = 1 /\ ip = 1) => state = EachAlone(code[1], threads)

-----------------------------------------------------------------------------
(* Properties of the thread instructions *)

\* where the threads of a text start: a % at the start of a line
Starts(text) ==
    {p \in 1..Len(text) : CharAt(text, p) = "%" /\ (p = 1 \/ CharAt(text, p - 1) = "\n")}

\* the threads of a text, each from its header to the next header
RECURSIVE SplitFrom(_, _)
SplitFrom(text, pos) ==
    LET later == {p \in Starts(text) : p > pos}
    IN IF later = {} THEN <<Slice(text, pos, Len(text))>>
       ELSE LET nxt == CHOOSE p \in later : \A r \in later : p <= r
            IN <<Slice(text, pos, nxt - 1)>> \o SplitFrom(text, nxt)

Split(text) == IF Starts(text) = {} THEN <<>> ELSE SplitFrom(text, 1)

Keep(seq, Test(_)) == SelectSeq(seq, Test)

IsActiveText(t) == StartsWith(t, 1, "%%\n")
IsParkedText(t) == ~IsActiveText(t)
UnderT(t) == StartsWith(t, 1, "%T\n")
IsActive(th) == th.tag = "%"
IsParked(th) == th.tag # "%"

ActiveCount(text) == Len(Keep(Split(text), IsActiveText))
ParkedCount(text) == Len(Keep(Split(text), IsParkedText))

RECURSIVE Texts(_)
Texts(ths) == IF ths = <<>> THEN <<>> ELSE <<ThreadText(Head(ths))>> \o Texts(Tail(ths))

Applied == pc = "exec" /\ Len(code) = 1 /\ ip = 1

\* C11: an instruction other than reactivate and join_pop leaves the text of
\* every parked thread as it was, also when the parked threads hold ;; in their
\* values.
C11_ParkedUntouched ==
    (Applied /\ code[1].op \notin {"reactivate", "join_pop"}) =>
        Keep(Split(state), UnderT) = Texts(Keep(threads, IsParked))

FalseOnTop(th) == IsActive(th) /\ th.stack # <<>> /\ Head(th.stack) = "False"

Forks == {"fork_inactive", "fork_with_new_var", "fork_list_pop"}

\* C12 as stated: only pause, fork_inactive and fork_with_new_var make the
\* parked threads more than they were.
C12_AsStated ==
    (Applied /\ code[1].op \notin {"pause", "fork_inactive", "fork_with_new_var"}) =>
        ParkedCount(state) <= ParkedCount(Text(threads))

\* C12: pause parks every active thread and cond parks the active threads with
\* False on top; the three forks keep every active thread active and add one
\* parked thread for each; no other instruction makes the parked threads more.
C12_Suspension ==
    Applied =>
        LET op == code[1].op
            before == Text(threads)
        IN /\ op = "pause" =>
                /\ ActiveCount(state) = 0
                /\ ParkedCount(state) = Len(threads)
           /\ op = "cond" =>
                /\ ParkedCount(state) = ParkedCount(before) + Len(Keep(threads, FalseOnTop))
                /\ ActiveCount(state) = ActiveCount(before) - Len(Keep(threads, FalseOnTop))
           /\ op \in Forks =>
                /\ ActiveCount(state) = ActiveCount(before)
                /\ ParkedCount(state) = ParkedCount(before) + ActiveCount(before)
           /\ op \notin Forks \cup {"pause", "cond"} =>
                ParkedCount(state) <= ParkedCount(before)

C12_Witness ==
    /\ Applied
    /\ code[1].op = "cond"
    /\ Len(Keep(threads, FalseOnTop)) >= 1
    /\ Len(Keep(threads, IsParked)) >= 1
    /\ ParkedCount(state) = ParkedCount(Text(threads)) + Len(Keep(threads, FalseOnTop))
    /\ Contains(state, "%UID1\n")

\* C13: destroy_active_threads leaves the parked threads, in their order, and
\* nothing else.
C13_Destroy ==
    (Applied /\ code[1].op = "destroy_active_threads") =>
        state = Text(Keep(threads, IsParked))

C13_Witness ==
    /\ Applied
    /\ code[1].op = "destroy_active_threads"
    /\ Len(threads) = 3
    /\ IsActive(threads[1]) /\ IsParked(threads[2]) /\ IsActive(threads[3])
    /\ threads[1] # threads[3]
    /\ state = ThreadText(threads[2])

\* the threads after a fork: after each active thread its copy under the label,
\* with the new variables at its end
RECURSIVE Forked(_, _, _)
Forked(ths, tag, items) ==
    IF ths = <<>> THEN <<>>
    ELSE (IF IsActive(Head(ths))
          THEN <<Head(ths), Thread(tag, Head(ths).stack, Head(ths).vars \o items)>>
          ELSE <<Head(ths)>>) \o Forked(Tail(ths), tag, items)

\* C14 as stated: fork_inactive and fork_with_new_var keep every thread as it
\* was and put after each active thread one copy under the label, the copy of
\* fork_with_new_var with one line per new variable at its end.
C14_AsStated ==
    (Applied /\ code[1].op \in {"fork_inactive", "fork_with_new_var"}) =>
        state = Text(Forked(threads, code[1].arg, code[1].more))

\* the text after a fork: the copy of fork_with_new_var ends with the lines of
\* the new variables, or with one empty line when there is no new variable
RECURSIVE ForkedText(_, _)
ForkedText(ths, ins) ==
    IF ths = <<>> THEN ""
    ELSE LET th == Head(ths)
             copy == ThreadText(Thread(ins.arg, th.stack, th.vars \o ins.more))
                        \o (IF ins.op = "fork_with_new_var" /\ ins.more = <<>>
                            THEN "\n" ELSE "")
         IN ThreadText(th) \o (IF IsActive(th) THEN copy ELSE "")
                \o ForkedText(Tail(ths), ins)

\* C14: fork_inactive and fork_with_new_var keep every thread as it was and put
\* after each active thread one copy under the label; the copy of
\* fork_with_new_var ends with one line per new variable, and with an empty
\* line when there are no new variables.  The active threads stay as many and
\* the parked threads grow by the number of active threads.
C14_ForkCopies ==
    (Applied /\ code[1].op \in {"fork_inactive", "fork_with_new_var"}) =>
        /\ state = ForkedText(threads, code[1])
        /\ ActiveCount(state) = ActiveCount(Text(threads))
        /\ ParkedCount(state) = ParkedCount(Text(threads)) + ActiveCount(Text(threads))

C14_Witness ==
    /\ Applied
    /\ code[1].op = "fork_with_new_var"
    /\ Len(code[1].more) = 2
    /\ Len(threads) = 3
    /\ IsActive(threads[1]) /\ IsParked(threads[2]) /\ IsActive(threads[3])
    /\ state = Text(Forked(threads, "W", code[1].more))
    /\ ParkedCount(state) = 3

\* the threads with every active thread parked under the label
ParkedAs(ths, tag) ==
    [i \in 1..Len(ths) |-> IF IsActive(ths[i]) THEN [ths[i] EXCEPT !.tag = tag] ELSE ths[i]]

\* the threads with every thread under the label active
Activated(ths, tag) ==
    [i \in 1..Len(ths) |-> IF ths[i].tag = tag THEN [ths[i] EXCEPT !.tag = "%"] ELSE ths[i]]

IsPauseReactivate ==
    /\ Len(code) = 2
    /\ code[1].op = "pause"
    /\ code[2] = Ins("reactivate", code[1].arg)

\* C15: pause TAG parks every active thread under TAG, and reactivate TAG after
\* it gives back the text as it was when no thread was under TAG before; when
\* threads were under TAG before, those are active too afterwards, the others
\* are as they were.
C15_PauseReactivate ==
    (pc = "exec" /\ IsPauseReactivate) =>
        LET tag == code[1].arg
            none == \A i \in 1..Len(threads) : threads[i].tag # tag
        IN /\ ip = 1 => state = Text(ParkedAs(threads, tag))
           /\ ip = 2 => state = Text(Activated(threads, tag))
           /\ (ip = 2 /\ none) => state = Text(threads)

C15_Witness ==
    /\ pc = "exec"
    /\ IsPauseReactivate
    /\ code[1].arg = "T"
    /\ ip = 2
    /\ Len(threads) = 3
    /\ {threads[i].tag : i \in 1..3} = {"%", "T", "sub"}
    /\ ActiveCount(state) = 2
    /\ state = Text(Activated(threads, "T"))

UnderSub(th) == th.tag = "sub"
UnderSubText(t) == StartsWith(t, 1, "%sub\n")
OtherLabel(th) == IsParked(th) /\ ~UnderSub(th)

\* the stack lines of the text of a thread: the lines after #stack: that do not
\* start a variable
StackDepth(t) ==
    LET body == Slice(t, Len(Hdr) + 1, Len(t))
        ends == {p \in 1..Len(body) : CharAt(body, p) = "\n"}
        firstVar == {p \in 1..Len(body) :
                        CharAt(body, p) = "#" /\ (p = 1 \/ CharAt(body, p - 1) = "\n")}
    IN Cardinality({p \in ends : \A v \in firstVar : p < v})

\* C16: after join_pop TAG has been applied at least as often as there are
\* threads under TAG, with one active thread that has a value on its stack, no
\* thread under TAG is left, the
\* active thread has one stack value more for each of them, and the threads
\* under other labels are as they were.
C16_Join ==
    (/\ pc = "exec"
     /\ code = JoinPops("sub", Len(code))
     /\ ip = Len(code)
     /\ Len(Keep(threads, IsActive)) = 1
     /\ Keep(threads, IsActive)[1].stack # <<>>
     /\ Len(Keep(threads, UnderSub)) <= Len(code)) =>
        /\ Keep(Split(state), UnderSubText) = <<>>
        /\ Keep(Split(state), UnderT) = Texts(Keep(threads, OtherLabel))
        /\ ActiveCount(state) = 1
        /\ StackDepth(Keep(Split(state), IsActiveText)[1])
              = Len(Keep(threads, IsActive)[1].stack) + Len(Keep(threads, UnderSub))

-----------------------------------------------------------------------------
(* Properties of the stack and variable instructions *)

\* how often s stands in text
Occurrences(text, s) == Cardinality({p \in 1..Len(text) : StartsWith(text, p, s)})

\* the threads after assign_pop name: an active thread without its top value v
\* and with name = v, a parked thread as it was
AfterAssignPop(ths, name) ==
    [i \in 1..Len(ths) |->
        IF IsActive(ths[i])
        THEN Thread("%", Tail(ths[i].stack),
                    Assigned(ths[i].vars, name, Head(ths[i].stack)))
        ELSE ths[i]]

\* C17: assign_pop NAME takes the top value v off the stack of each active
\* thread and makes NAME hold v, in its line when NAME exists and in a new last
\* line of the thread when it does not; NAME then has one line in the thread,
\* the other variables and the rest of the stack are as they were, and no
\* sentinel is left in the text.
C17_AssignPop ==
    (Applied /\ code[1].op = "assign_pop") =>
        /\ state = Text(AfterAssignPop(threads, code[1].arg))
        /\ ~Contains(state, BT)
        /\ \A i \in 1..Len(Split(state)) :
              IsActiveText(Split(state)[i]) =>
                  Occurrences(Split(state)[i], "#" \o code[1].arg \o ": ") = 1

HasVar(th, name) == \E i \in 1..Len(th.vars) : th.vars[i][1] = name

C17_Witness ==
    /\ Applied
    /\ code[1] = Ins("assign_pop", "q")
    /\ Len(threads) = 2
    /\ IsActive(threads[1]) /\ HasVar(threads[1], "q")
    /\ IsActive(threads[2]) /\ ~HasVar(threads[2], "q")
    /\ state = Text(AfterAssignPop(threads, "q"))

\* the threads after indirect_assign: an active thread without the value and the
\* name on its stack and with name = value, a parked thread as it was
AfterIndirectAssign(ths) ==
    [i \in 1..Len(ths) |->
        IF IsActive(ths[i])
        THEN Thread("%", Tail(Tail(ths[i].stack)),
                    Assigned(ths[i].vars, ths[i].stack[2], ths[i].stack[1]))
        ELSE ths[i]]

\* C18: indirect_assign takes the value v and the name p below it off the stack
\* of every active thread and makes p hold v, whether p exists or not and
\* whether other threads follow the thread or not.
C18_IndirectAssign ==
    (Applied /\ code[1].op = "indirect_assign") => state = Text(AfterIndirectAssign(threads))

\* the threads after eq: an active thread with True or False in place of its
\* top two values
AfterEq(ths) ==
    [i \in 1..Len(ths) |->
        IF IsActive(ths[i])
        THEN [ths[i] EXCEPT !.stack =
                <<IF ths[i].stack[1] = ths[i].stack[2] THEN "True" ELSE "False">>
                    \o Tail(Tail(ths[i].stack))]
        ELSE ths[i]]

\* C19: eq puts True in place of the top two values a, b of each active thread
\* when a = b and False when not, the empty string being a value like any
\* other, and leaves the rest of the stack, the variables and the other threads
\* as they were.
C19_Eq ==
    (Applied /\ code[1].op = "eq") => state = Text(AfterEq(threads))

\* the number a literal int followed by ten bits stands for
RECURSIVE FromBinary(_)
FromBinary(bits) ==
    IF bits = "" THEN 0
    ELSE 2 * FromBinary(Slice(bits, 1, Len(bits) - 1))
            + (IF CharAt(bits, Len(bits)) = "1" THEN 1 ELSE 0)

NumberOf(literal) == FromBinary(Slice(literal, 4, Len(literal)))

\* C20: push x, to_unary, push y, to_unary, add_unary, from_unary leaves int and
\* the ten bits of (x + y) mod 2^10 as the only stack value.
C20_AddUnary ==
    (pc = "exec" /\ Len(code) = 6 /\ code[6].op = "from_unary" /\ ip = 6) =>
        state = Hdr \o IntLiteral((NumberOf(code[1].arg) + NumberOf(code[3].arg)) % 1024)
                    \o "\n"

-----------------------------------------------------------------------------
(* Properties of the number instructions *)

\* the text of the threads with one more value on the stack of the first thread
WithResult(value) == Text([threads EXCEPT ![1].stack = <<value>> \o @])

Monus(x, y) == IF x >= y THEN x - y ELSE 0

Bool(b) == IF b THEN "True" ELSE "False"

\* C21: push x, to_unary, push y, to_unary (y on top), sub_unary, from_unary
\* leaves int and the ten bits of max(0, x - y) in place of the two operands;
\* the stack below, the variables and the other threads are as they were.
C21_SubUnary ==
    (pc = "exec" /\ Len(code) = 6 /\ code[5].op = "sub_unary" /\ ip = 6) =>
        state = WithResult(IntLiteral(Monus(NumberOf(code[1].arg), NumberOf(code[3].arg))))

C21_Witness ==
    /\ pc = "exec" /\ ip = 6 /\ Len(threads) = 2
    /\ code = SubtractionCode(5, 6)
    /\ state = WithResult("int0000000000")

\* C22: to_unary turns the literal of n on the stack top into n letters A, and
\* from_unary turns these back into the literal of n; the stack below (a unary
\* line included), the variables and the other threads are as they were.
C22_RoundTrip ==
    (pc = "exec" /\ Len(code) = 3 /\ code[3].op = "from_unary") =>
        /\ ip = 2 => state = WithResult(Times("A", NumberOf(code[1].arg)))
        /\ ip = 3 => state = WithResult(code[1].arg)

C22_Witness ==
    /\ pc = "exec" /\ ip = 3 /\ Len(threads) = 2
    /\ code = RoundTripCode(682)
    /\ state = WithResult("int1010101010")

Compared(operation, x, y) ==
    CASE operation = "greater_than" -> x > y
      [] operation = "less_than" -> x < y
      [] operation = "greater_equal_than" -> x >= y
      [] operation = "less_equal_than" -> x <= y

\* C23: with unary y pushed first and unary x second (x on top), greater_than
\* leaves True iff x > y, less_than iff x < y, greater_equal_than iff x >= y and
\* less_equal_than iff x <= y, in place of the two operands; the stack below,
\* the variables and the other threads are as they were.
C23_Comparisons ==
    (pc = "exec" /\ Len(code) = 5 /\ code[5].op \in Comparisons /\ ip = 5) =>
        state = WithResult(Bool(Compared(code[5].op, NumberOf(code[3].arg),
                                         NumberOf(code[1].arg))))

C23_Witness ==
    /\ pc = "exec" /\ ip = 5 /\ Len(threads) = 2
    /\ code = ComparisonCode("greater_equal_than", 5, 5)
    /\ state = WithResult("True")

\* C24: binary_add leaves the literal of (x + y) mod 2^10 in place of the top
\* two literals x and y; no bit: line is left, and the stack below, the
\* variables and the other threads are as they were.
C24_BinaryAdd ==
    (pc = "exec" /\ Len(code) = 3 /\ code[3].op = "binary_add" /\ ip = 3) =>
        /\ state = WithResult(IntLiteral((NumberOf(code[1].arg) + NumberOf(code[2].arg)) % 1024))
        /\ ~Contains(state, "bit:")

C24_Witness ==
    /\ pc = "exec" /\ ip = 3 /\ Len(threads) = 2
    /\ code = BinaryAddCode(1023, 3)
    /\ state = WithResult("int0000000010")

-----------------------------------------------------------------------------
(* Properties of linearize_expr *)

\* seq holds part from position p on
HoldsAt(seq, part, p) ==
    p + Len(part) - 1 <= Len(seq) /\ SubSeq(seq, p, p + Len(part) - 1) = part

\* the opcodes of first stand at the head of seq and those of second after them,
\* with at most a to_unary between
InOrder(seq, first, second) ==
    /\ HoldsAt(seq, first, 1)
    /\ \/ HoldsAt(seq, second, Len(first) + 1)
       \/ /\ HoldsAt(seq, <<Ins("to_unary", "")>>, Len(first) + 1)
          /\ HoldsAt(seq, second, Len(first) + 2)

TracedExpr == tree[1].value

LeftCode == linearize_expr(TracedExpr.args[1])
RightCode == linearize_expr(TracedExpr.args[2])

Lowered ==
    /\ pc = "linearized" /\ Len(tree) = 1 /\ tree[1].op = "assign"
    /\ TracedExpr.op \in BinaryOps
    /\ TracedExpr.args[1] # TracedExpr.args[2]

\* C25 as stated: the right operand's opcodes come first for every operator
\* with two operands, + and - included.
C25_AsStated == Lowered => InOrder(linear, RightCode, LeftCode)

\* C25: the right operand's opcodes come first, so that the left operand is on
\* top when the operator's opcode fires, for ==, !=, and, or, string
\* concatenation, the ordered comparisons and integer -; for integer + the left
\* operand's opcodes come first and the right operand is on top.
C25_OperandOrder ==
    Lowered => IF TracedExpr.op = "+" THEN InOrder(linear, LeftCode, RightCode)
               ELSE InOrder(linear, RightCode, LeftCode)

C25_Witness ==
    /\ pc = "linearized"
    /\ tree = <<AssignNode("r", Binary2("+", Lookup("a"), Lookup("b")))>>
    /\ linear = <<Ins("lookup", "a"), Ins("lookup", "b"), Ins("binary_add", ""),
                  Ins("assign_pop", "r")>>

-----------------------------------------------------------------------------
(* Properties of re_compile *)

\* C26: a second call of re_compile on the same traced program returns the
\* opcode stream, the labels and the rule lists of the first call, and fails
\* where the first call failed; nothing of the first call is seen by the second.
C26_Recompile ==
    (Len(compiled) > 0 /\ pc \in {"linearized", "aborted"}) =>
        /\ Returned = compiled[Len(compiled)]
        /\ create(linear) = create(compiled[Len(compiled)].linear)

C26_Witness ==
    /\ Len(compiled) = 1
    /\ pc = "linearized"
    /\ Len(tags) >= 4
    /\ Returned = compiled[1]
    /\ create(linear)[Len(linear)][1] = linear[Len(linear)]

-----------------------------------------------------------------------------
(* Properties of CPUState *)

\* C27: from_string(S).to_string() is S for every text S of one thread, also when
\* its variables are not in the order of their names or a value is a single space,
\* and from_string(to_string(c)) has the stack and the variables of c.
C27_RoundTrip ==
    /\ pc = "parsed" => to_string(threads[1]) = state
    /\ pc = "written" => from_string(state).cpu = threads[1]

-----------------------------------------------------------------------------
(* Properties of the opcodes traced through __getattr__ *)

RawCall == Program(progId)[1]

\* C30: a call variables.key(args) with key registered in the library is traced
\* as the node (key, args) and emitted by linearize_tree as the opcode key with
\* its arguments; the compilation fails only for a key that is not registered.
C30_RawOpcodes ==
    /\ (pc \in {"linearized", "aborted"} /\ progId < 0 /\ RawCall.key \in INSTRUCTIONS) =>
           /\ pc = "linearized"
           /\ linear = <<Ins(RawCall.key, RawCall.value.s)>>
    /\ (pc = "crashed" /\ progId < 0) => RawCall.key \notin INSTRUCTIONS

-----------------------------------------------------------------------------
(* The runtime loop of main.py on the rule list write_json_output writes *)

\* the text the last rule writes, without the rows of the board
InitialText == "[Castling Rights: KQkq, En Passant: -]\nEnter Your Move: "

\* the move the position allows
LegalMove == "e2e4"

\* make_reply_move cut down to the user's move: unpretty; if the move is not
\* legal, destroy_active_threads; illegal_move; make_pretty
ReplyProgram ==
    <<Ins("unpretty", "")>>
      \o BranchCode(next_tag(0), next_tag(1),
                    linearize_expr(Binary2("!=", Lookup("move"), Lit(LegalMove))),
                    <<Ins("destroy_active_threads", "")>>, <<>>)
      \o <<Ins("illegal_move", ""), Ins("make_pretty", "")>>

RECURSIVE Flatten(_)
Flatten(lists) == IF lists = <<>> THEN <<>> ELSE Head(lists) \o Flatten(Tail(lists))

\* operations of write_json_output: ['^$', '<'], the rules of every opcode, and
\* ['^<$', the initial text]
regexs ==
    <<Rule(<<Bos, Eos>>, <<L("<")>>)>>
      \o Flatten([i \in 1..Len(ReplyProgram) |-> RulesOf(ReplyProgram[i])])
      \o <<Rule(<<Bos, L("<"), Eos>>, <<L(InitialText)>>)>>

\* the lines the user types
InputLines == {"e2e4", "e2e5", "q", "zz", "z<"}

\* most lines read in one run
MaxReads == 3

\* state = ''
InitLoop ==
    /\ state = ""
    /\ pc = "while"
    /\ code = <<>>
    /\ ip = 0
    /\ threads = <<>>
    /\ TraceIdle

\* while 'Game over' not in state
LoopTest ==
    /\ pc = "while"
    /\ pc' = IF Contains(state, "Game over") THEN "exit" ELSE "rules"
    /\ UNCHANGED <<state, code, ip, threads, printed>>
    /\ UNCHANGED traceVars

\* for pattern, repl in regexs: state = re.sub(pattern, repl, state)
ApplyRegexs ==
    /\ pc = "rules"
    /\ state' = ApplyRules(regexs, state)
    /\ pc' = "print"
    /\ UNCHANGED <<code, ip, threads, printed>>
    /\ UNCHANGED traceVars

\* print(state, end="")
PrintState ==
    /\ pc = "print"
    /\ printed' = Append(printed, state)
    /\ pc' = "input"
    /\ UNCHANGED <<state, code, ip, threads>>
    /\ UNCHANGED traceVars

\* state += input() + "\n"
ReadLine ==
    /\ pc = "input"
    /\ Len(printed) <= MaxReads
    /\ \E line \in InputLines : state' = state \o line \o "\n"
    /\ pc' = "while"
    /\ UNCHANGED <<code, ip, threads, printed>>
    /\ UNCHANGED traceVars

NextLoop ==
    \/ LoopTest
    \/ ApplyRegexs
    \/ PrintState
    \/ ReadLine

SpecLoop == InitLoop /\ [][NextLoop]_vars

-----------------------------------------------------------------------------
(* Properties of the runtime loop *)

GameOverPrinted == \E i \in 1..Len(printed) : Contains(printed[i], "Game over")

\* C28: no line is read from the user after a state that holds Game over has
\* been printed: the loop reads, applies the rules and prints, and stops as soon
\* as Game over stands in the state.
C28_NoReadAfterGameOver == [][ReadLine => ~GameOverPrinted]_vars

\* C29: the rule of illegal_move rewrites a text to the text of the illegal move
\* exactly when the text holds no % and is not the text < of the first rule.
C29_IllegalMove ==
    (Exec(Ins("illegal_move", ""), state) = IllegalText)
        <=> (~Contains(state, "%") /\ state # "<")

-----------------------------------------------------------------------------
(* variable_uniq on the semicolon list of a variable *)

\* the text of a list: every item followed by ;
RECURSIVE ListText(_)
ListText(items) == IF items = <<>> THEN "" ELSE Head(items) \o ";" \o ListText(Tail(items))

\* the items the lists are made of
ListItems == {"a", "b", "ab"}

MaxItems == 4

\* a list with twelve separate runs of equal items
TwelveRuns ==
    <<"a", "a", "b", "b", "c", "c", "d", "d", "e", "e", "f", "f",
      "g", "g", "h", "h", "i", "i", "j", "j", "k", "k", "l", "l">>

UniqLists == UNION {[1..n -> ListItems] : n \in 0..MaxItems} \cup {TwelveRuns}

\* test_variable_uniq: the list stands in test_list, here with a value on the
\* stack and a variable and a parked thread after it
InitUniq ==
    /\ \E items \in UniqLists :
          threads \in {<<Thread("%", <<>>, << <<"v", ListText(items)>> >>)>>,
                       <<Thread("%", <<"b;b;">>, << <<"v", ListText(items)>>, <<"w", "a;a;">> >>),
                         Thread("T", <<>>, << <<"v", "b;b;">> >>)>>}
    /\ state = Text(threads)
    /\ code = <<Ins("variable_uniq", "v")>>
    /\ ip = 0
    /\ pc = "exec"
    /\ TraceIdle

NextUniq == Step

SpecUniq == InitUniq /\ [][NextUniq]_vars

-----------------------------------------------------------------------------
(* Properties of variable_uniq *)

\* one item of each run of equal adjacent items, in order
RECURSIVE Uniq(_)
Uniq(items) ==
    IF Len(items) <= 1 THEN items
    ELSE IF items[1] = items[2] THEN Uniq(Tail(items))
    ELSE <<Head(items)>> \o Uniq(Tail(items))

UniqInput == CHOOSE items \in UniqLists : ListText(items) = threads[1].vars[1][2]

\* C31: variable_uniq leaves in the variable one item of each run of equal
\* adjacent whole items, in order, for every list, and nothing else of the text
\* is changed.
C31_VariableUniq ==
    (code = <<Ins("variable_uniq", "v")>> /\ ip = 1) =>
        state = Text([threads EXCEPT ![1].vars[1][2] = ListText(Uniq(UniqInput))])

-----------------------------------------------------------------------------
(* keep_only_max_thread followed by keep_only_first_thread *)

\* the unary values on top of the threads
UnaryLengths == {1, 2, 30}

MaxMinThreads == 3

\* test_keep_only_min_thread.generate_test_case: adjacent active threads, each
\* with one unary value
MinThreadLists ==
    UNION {[1..n -> {Thread("%", <<Times("A", l)>>, <<>>) : l \in UnaryLengths}]
              : n \in 2..MaxMinThreads}
      \cup {[i \in 1..5 |-> Thread("%", <<Times("A", lengths[i])>>, <<>>)]
              : lengths \in {<<30, 3, 2, 3, 2>>, <<2, 3, 30, 1, 7>>, <<5, 4, 3, 2, 1>>}}

InitMin ==
    /\ threads \in MinThreadLists
    /\ state = Text(threads)
    /\ code \in {<<Ins("keep_only_max_thread", ""), Ins("keep_only_first_thread", "")>>,
                 <<Ins("keep_only_min_thread", ""), Ins("keep_only_first_thread", "")>>}
    /\ ip = 0
    /\ pc = "exec"
    /\ TraceIdle

NextMin == Step

SpecMin == InitMin /\ [][NextMin]_vars

-----------------------------------------------------------------------------
(* Properties of keep_only_max_thread *)

\* the least number of letters on top of the threads
MinLength ==
    CHOOSE l \in {Len(threads[i].stack[1]) : i \in 1..Len(threads)} :
        \A i \in 1..Len(threads) : l <= Len(threads[i].stack[1])

MinRun == code[2] = Ins("keep_only_first_thread", "") /\ Len(threads) >= 2 /\ ip = 2

\* C32: after the rules of keep_only_max_thread (the same as those of
\* keep_only_min_thread) and of keep_only_first_thread one thread is left, and
\* its unary value is the shortest of the threads.
C32_KeepMin ==
    /\ keep_only_max_thread = keep_only_min_thread
    /\ (Len(code) = 2 /\ MinRun) =>
           state = Text(<<Thread("%", <<Times("A", MinLength)>>, <<>>)>>)

C32_Witness ==
    /\ Len(code) = 2 /\ MinRun
    /\ threads = [i \in 1..5 |-> Thread("%", <<Times("A", <<30, 3, 2, 3, 2>>[i])>>, <<>>)]
    /\ state = "%%\n#stack:\nAA\n"

-----------------------------------------------------------------------------
(* Sequences of instructions chosen one after the other *)

MaxOps == 3

\* the rules of one more opcode are applied to the state; code keeps the opcode
Apply(ins) ==
    /\ pc = "exec"
    /\ ip < MaxOps
    /\ state' = Exec(ins, state)
    /\ code' = <<ins>>
    /\ ip' = ip + 1
    /\ UNCHANGED <<threads, pc, printed>>
    /\ UNCHANGED traceVars

\* threads whose variable names are unique
NamedThreads ==
    {<<Thread("%", <<"v", "x">>, << <<"x", "1">>, <<"l", "a;b;">> >>)>>,
     <<Thread("%", <<"w">>, <<>>), Thread("T", <<"u">>, << <<"x", "1">> >>)>>,
     <<Thread("%", <<>>, << <<"l", "c;">> >>), Thread("%", <<"x", "x">>, <<>>)>>}

\* the instructions that write variables or copy, park and join threads
NamesLibrary ==
    {Ins("assign_pop", "x"), Ins("indirect_assign", ""),
     InsMore("list_pop", "l", << <<"x", "">> >>), InsMore("assign_stack_to", "l", <<2>>),
     Ins("fork_inactive", "T"), InsMore("fork_with_new_var", "T", << <<"x", "2">> >>),
     InsMore("fork_with_new_var", "T", << <<"dx", "2">> >>), Ins("fork_bool", "x"),
     Ins("fork_bool", "b"), Ins("pause", "T"), Ins("reactivate", "T"), Ins("join_pop", "T")}

InitNames ==
    /\ threads \in NamedThreads
    /\ state = Text(threads)
    /\ code = <<>>
    /\ ip = 0
    /\ pc = "exec"
    /\ TraceIdle

NextNames == \E ins \in NamesLibrary : Apply(ins)

SpecNames == InitNames /\ [][NextNames]_vars

-----------------------------------------------------------------------------
(* Properties of the variable lines *)

\* the lines of the state, without the empty piece after the last newline
Lines == SplitLines(state, 1)

IsHeader(line) == StartsWith(line, 1, "%")

IsVarLine(line) == StartsWith(line, 1, "#") /\ line # "#stack:" /\ Contains(line, ": ")

\* the name of a variable line: what stands between # and the first ": "
VarName(line) ==
    LET stops == {p \in 1..Len(line) : StartsWith(line, p, ": ")}
    IN Slice(line, 2, (CHOOSE p \in stops : \A j \in stops : p <= j) - 1)

\* two lines of one thread carry the same variable name
DuplicateName ==
    \E i, j \in 1..Len(Lines) :
        /\ i < j
        /\ IsVarLine(Lines[i]) /\ IsVarLine(Lines[j])
        /\ VarName(Lines[i]) = VarName(Lines[j])
        /\ \A k \in i..j : ~IsHeader(Lines[k])

\* C33: no thread of a reachable state holds two lines for one variable name.
C33_UniqueNames == pc = "exec" => ~DuplicateName

-----------------------------------------------------------------------------
(* The stack instructions on threads with few values *)

\* well-formed threads whose stacks hold no value, one value or two
ShallowThreads ==
    {<<Thread("%", <<>>, << <<"x", "1">> >>)>>,
     <<Thread("%", <<"v">>, << <<"x", "1">> >>)>>,
     <<Thread("%", <<"v", "w">>, <<>>)>>,
     <<Thread("%", <<>>, <<>>), Thread("T", <<"u">>, <<>>)>>,
     <<Thread("%", <<"v">>, <<>>), Thread("T", <<>>, << <<"y", "2">> >>)>>}

CoreLibrary ==
    {Ins("push", "v"), Ins("pop", ""), Ins("swap", ""), Ins("dup", ""), Ins("eq", ""),
     Ins("assign_pop", "x"), Ins("lookup", "x"), Ins("join_pop", "T")}

InitCore ==
    /\ threads \in ShallowThreads
    /\ state = Text(threads)
    /\ code = <<>>
    /\ ip = 0
    /\ pc = "exec"
    /\ TraceIdle

NextCore == \E ins \in CoreLibrary : Apply(ins)

SpecCore == InitCore /\ [][NextCore]_vars

-----------------------------------------------------------------------------
(* Properties of the layout of a thread *)

\* the lines of a state that ends with a newline
TextLines == SubSeq(Lines, 1, Len(Lines) - 1)

IsValue(line) == ~StartsWith(line, 1, "#") /\ ~StartsWith(line, 1, "%")

\* every thread is a header, the line #stack:, its values and then its variables
WellFormed ==
    /\ Lines[Len(Lines)] = ""
    /\ TextLines # <<>> => IsHeader(TextLines[1])
    /\ \A i \in 1..Len(TextLines) :
          LET line == TextLines[i] IN
          /\ IsHeader(line) \/ line = "#stack:" \/ IsVarLine(line) \/ IsValue(line)
          /\ IsHeader(line) => i < Len(TextLines) /\ TextLines[i + 1] = "#stack:"
          /\ line = "#stack:" => i > 1 /\ IsHeader(TextLines[i - 1])
          /\ IsVarLine(line) => ~VarName(line) = "" /\ ~Contains(VarName(line), "#")
          /\ (IsVarLine(line) /\ i < Len(TextLines)) => ~IsValue(TextLines[i + 1])

\* C34: in every state reached from a well-formed state each thread has one
\* line #stack:, directly after its header, its stack values stand before its
\* variable lines and none begins with #, also when an instruction finds fewer
\* values on the stack than it takes.
C34_WellFormed == pc = "exec" => WellFormed

-----------------------------------------------------------------------------
(* binary_subtract on two literals *)

\* linearize_expr of x - y with two int literals: push y, push x, binary_subtract
BinarySubtractCode(x, y) ==
    <<Ins("push", IntLiteral(y)), Ins("push", IntLiteral(x)), Ins("binary_subtract", "")>>

InitMinus ==
    InitNumbers({BinarySubtractCode(x, y) : x \in BinaryOperands, y \in BinaryOperands})

NextMinus == Step

SpecMinus == InitMinus /\ [][NextMinus]_vars

-----------------------------------------------------------------------------
(* Properties of binary_subtract *)

\* C35: binary_subtract with x on top and y below leaves the literal of x - y
\* when x >= y and int0000000000 when x < y in place of the two, for all x and y
\* below 2^10.
C35_BinarySubtract ==
    (pc = "exec" /\ Len(code) = 3 /\ code[3].op = "binary_subtract" /\ ip = 3) =>
        state = WithResult(IntLiteral(Monus(NumberOf(code[2].arg), NumberOf(code[1].arg))))

-----------------------------------------------------------------------------
(* Properties of the cursor of the call tree *)

\* the two histories grow and shrink together, one entry per branch that is open
HistoriesAgree ==
    /\ Len(pointer_hist) = Len(active_path_hist)
    /\ Len(active_path) = Len(active_path_hist)

\* an execution of the traced program has ended
ExecutionEnded == pc = "loop" /\ iter > 0

\* a merge leaves the child list of a branch node for the list the node stands
\* in, with the cursor one past the node
MergeRestores ==
    (pc = "run" /\ todo # <<>> /\ Head(todo).op = "merge" /\ pc' = "run") =>
        /\ pointer' >= 1
        /\ pointer' <= Len(GetList(tree', active_path'))
        /\ GetList(tree', active_path')[pointer'].op = "branch"
        /\ \E side \in {1, 2} : active_path = Append(active_path', <<pointer', side>>)
        /\ active_path' = active_path_hist[Len(active_path_hist)]

\* C36: the two histories have the same length at all times, at the end of each
\* execution of a traced program whose ite() calls are each followed by one
\* merge() they are empty and the active path is the root list, and every merge
\* restores the path its branch saved with the pointer one past the branch node.
C36_BalancedCursor ==
    /\ [](HistoriesAgree
            /\ (ExecutionEnded =>
                  pointer_hist = <<>> /\ active_path_hist = <<>> /\ active_path = <<>>))
    /\ [][MergeRestores]_vars

C36_Witness ==
    /\ pc = "run" /\ last.op = "merge" /\ iter >= 2
    /\ Len(pointer_hist) >= 1
    /\ GetList(tree, active_path)[pointer].op = "branch"

-----------------------------------------------------------------------------
(* Properties of trace on a complete tree *)

\* the execution at whose end the tree of the traced program is complete
Completing == Needed(Program(progId))

\* between two executions
Between == pc = "loop" /\ iter >= 1

\* C37: the tree is complete from the end of a certain execution on, and no
\* step of a later execution changes it: append passes over the recorded nodes
\* and branch adds neither a node nor a child list.
C37_CompleteTreeUnchanged ==
    /\ [](Between => (traverse(Some(tree)) <=> iter >= Completing))
    /\ [][(pc \in {"loop", "run"} /\ iter >= Completing /\ (pc = "run" => iter > Completing))
              => tree' = tree]_vars

C37_Witness ==
    /\ progId = 4
    /\ pc = "run" /\ iter = Completing + 1 /\ last.op = "branch" /\ last.existed
    /\ traverse(Some(tree))

-----------------------------------------------------------------------------
(* cond, pause and reactivate on texts of active and parked threads *)

\* active threads with True, False or no value on top, and parked threads
ConservedThreads ==
    {Thread("%", <<"True", "x">>, << <<"q", "1">> >>),
     Thread("%", <<"False">>, <<>>),
     Thread("%", <<>>, << <<"q", "True">> >>),
     Thread("T", <<"False", "y">>, <<>>),
     Thread("U", <<"True">>, << <<"r", "2">> >>)}

ConservingLibrary ==
    {Ins(op, tag) : op \in {"cond", "pause", "reactivate"}, tag \in {"T", "W"}}

InitConserve ==
    /\ threads \in UNION {[1..n -> ConservedThreads] : n \in 1..MaxFrameThreads}
    /\ state = Text(threads)
    /\ \E ins \in ConservingLibrary : Applicable(ins, threads) /\ code = <<ins>>
    /\ ip = 0
    /\ pc = "exec"
    /\ TraceIdle

NextConserve == Step

SpecConserve == InitConserve /\ [][NextConserve]_vars

-----------------------------------------------------------------------------
(* Properties of cond, pause and reactivate *)

HeaderTags == {"%", "T", "U", "W"}

\* thread i as the instruction leaves it apart from its header: cond takes the
\* truth value off the stack of an active thread
Conserved(i) ==
    IF code[1].op = "cond" /\ IsActive(threads[i])
    THEN [threads[i] EXCEPT !.stack = Tail(@)]
    ELSE threads[i]

\* C38: cond, pause and reactivate leave as many threads as there were, in the
\* same order, each with its stack and its variables; only the header lines
\* change, and cond takes the truth value off the stack of the active threads.
C38_ThreadsConserved ==
    (Applied /\ code[1] \in ConservingLibrary) =>
        /\ Len(Split(state)) = Len(threads)
        /\ \A i \in 1..Len(threads) :
              \E tag \in HeaderTags :
                  Split(state)[i] = ThreadText([Conserved(i) EXCEPT !.tag = tag])

C38_Witness ==
    /\ Applied /\ code[1] = Ins("cond", "T")
    /\ Len(threads) = 3
    /\ threads[1].stack = <<"True", "x">> /\ threads[2].tag = "T"
    /\ threads[3].stack = <<"False">>
    /\ state = "%%\n#stack:\nx\n#q: 1\n%T\n#stack:\nFalse\ny\n%T\n#stack:\n"

-----------------------------------------------------------------------------
(* assign_stack_to on stacks of several depths *)

MaxRepeats == 3

MaxStack == 3

\* stacks of values, the empty string among them
StackedValues == UNION {[1..n -> {"a", "b", ""}] : n \in 0..MaxStack}

\* an active thread in which x is new, is the only variable, or stands before
\* another one, alone or followed by a parked thread or by a second active thread
StackToThreads ==
    {<<Thread("%", stack, variables)>> \o rest :
        stack \in StackedValues,
        variables \in {<<>>, << <<"x", "old;">> >>, << <<"x", "o">>, <<"q", "1">> >>},
        rest \in {<<>>, <<Thread("T", <<"z">>, << <<"x", "k">> >>)>>,
                  <<Thread("%", <<"z", "w">>, << <<"q", "2">> >>)>>}}

InitStackTo ==
    /\ threads \in StackToThreads
    /\ state = Text(threads)
    /\ \E n \in 0..MaxRepeats : code = <<InsMore("assign_stack_to", "x", <<n>>)>>
    /\ ip = 0
    /\ pc = "exec"
    /\ TraceIdle

NextStackTo == Step

SpecStackTo == InitStackTo /\ [][NextStackTo]_vars

-----------------------------------------------------------------------------
(* Properties of assign_stack_to *)

Least(a, b) == IF a < b THEN a ELSE b

\* the first k values of a stack as a list, the k-th first
RECURSIVE ReversedList(_, _)
ReversedList(stack, k) ==
    IF k = 0 THEN "" ELSE stack[k] \o ";" \o ReversedList(stack, k - 1)

AfterStackTo(th, name, n) ==
    IF IsParked(th) THEN th
    ELSE LET k == Least(n, Len(th.stack))
         IN [th EXCEPT !.stack = SubSeq(@, k + 1, Len(@)),
                       !.vars = Assigned(@, name, ReversedList(th.stack, k))]

StackToApplied == Applied /\ code[1].op = "assign_stack_to"

\* C39: assign_stack_to NAME N sets NAME, in every active thread, to the list of
\* the first min(N, depth) stack values, each followed by ;, the deepest of them
\* first, takes these values off the stack and leaves the deeper values, the
\* other variables and the parked threads as they were.
C39_AssignStackTo ==
    StackToApplied =>
        state = Text([i \in 1..Len(threads) |->
                        AfterStackTo(threads[i], code[1].arg, code[1].more[1])])

C39_Witness ==
    /\ StackToApplied /\ code[1].more = <<2>>
    /\ threads = <<Thread("%", <<"a", "", "b">>, << <<"x", "o">>, <<"q", "1">> >>),
                   Thread("%", <<"z", "w">>, << <<"q", "2">> >>)>>
    /\ state = "%%\n#stack:\nb\n#x: ;a;\n#q: 1\n%%\n#stack:\n#q: 2\n#x: w;z;\n"

=============================================================================
